---- MODULE Spec2Model ----
(***************************************************************************)
(* StripeCord: the catalog synchronizer, the webhook decoder and the       *)
(* subscription mutation operations of src/src/core/stripe.ts, with the    *)
(* payment platform modelled at the boundary the code calls it through.    *)
(*                                                                         *)
(* Remote listings are sequences in the order the platform returns them    *)
(* (most recently created first), because the code resolves "the" monthly  *)
(* and yearly price of a product with Array.find over the listing.         *)
(***************************************************************************)
EXTENDS Integers, Sequences, FiniteSets, TLC

VARIABLES
    config,          \* manager.config: premiumTiers, addons, stripeWebhookSecret
    webhookSecret,   \* StripeManager.stripeWebhookSecret ("" is null)
    products,        \* remote products, in listing order
    prices,          \* remote prices, in listing order
    endpoints,       \* remote webhook endpoints
    customers,       \* remote customers, in listing order
    subscriptions,   \* remote subscriptions, in listing order
    sessions,        \* remote checkout sessions not yet completed
    nextId,          \* next remote object id the platform hands out
    op,              \* the last operation and its input
    calls,           \* remote calls issued by the last operation, in order
                     \* (of the synchronizer, the writes)
    emitted,         \* events emitted by the last operation, in order
    result,          \* how the last operation ended
    runs,            \* operations completed so far (syncAll runs, mutations)
    synced,          \* the declared catalog of the last completed syncAll
    running          \* syncAll runs in progress, each at a remote-call boundary

vars == <<config, webhookSecret, products, prices, endpoints, customers,
          subscriptions, sessions, nextId, op, calls, emitted, result, runs, synced,
          running>>

---------------------------------------------------------------------------
(* Bounds *)

MaxRuns == 3

\* the largest quantity of an add-on item in a delivered subscription
MaxQty == 2

---------------------------------------------------------------------------
(* Helpers over listings *)

\* Array.prototype.find as an index: the first position satisfying P, 0 if none.
FindIdx(s, P(_)) ==
    IF \E i \in 1..Len(s) : P(s[i])
    THEN CHOOSE i \in 1..Len(s) : P(s[i]) /\ \A j \in 1..(i - 1) : ~P(s[j])
    ELSE 0

Some(s, P(_)) == \E i \in 1..Len(s) : P(s[i])

Every(s, P(_)) == \A i \in 1..Len(s) : P(s[i])

\* A patch applied to a remote object: the fields named by the patch are replaced.
Patch(obj, patch) ==
    [f \in DOMAIN obj |-> IF f \in DOMAIN patch THEN patch[f] ELSE obj[f]]

PatchById(s, id, patch) ==
    [i \in 1..Len(s) |-> IF s[i].id = id THEN Patch(s[i], patch) ELSE s[i]]

\* The declared multiplier taken as it is
getYearlyMultiplier_AsDeclared(times) == times

getYearlyMultiplier(times) == IF times < 1 THEN 10 ELSE times

\* currency ?? 'usd' and currency || 'usd'
CurrencyOr(c) == IF c = "" THEN "usd" ELSE c

---------------------------------------------------------------------------
(* The payment platform's catalog API, as called by the synchronizer.      *)
(* st = [products, prices, endpoints, secret, calls, emitted, nextId,      *)
(* failing, thrown] is threaded through one run. failing holds the create  *)
(* calls the platform rejects in this run, as [op, iid, which]; thrown is  *)
(* set while an error propagates, and a call is not issued then.           *)

\* The platform rejects this create call.
Fails(st, name, iid, which) ==
    [op |-> name, iid |-> iid, which |-> which] \in st.failing

\* throw new Error(...) / a rejected promise that is awaited
Fail(st) == [st EXCEPT !.thrown = TRUE]

\* .catch(() => null)
Caught(st) == [st EXCEPT !.thrown = FALSE]

ProductsCreate(st, name, type, iid, which) ==
    IF st.thrown THEN st
    ELSE IF Fails(st, "products.create", iid, which) THEN Fail(st)
    ELSE
    [st EXCEPT
        !.products = <<[id |-> st.nextId, name |-> name, active |-> TRUE,
                        iid |-> iid, type |-> type, which |-> which,
                        default_price |-> 0]>> \o @,
        !.nextId = @ + 1,
        !.calls = Append(@, [op |-> "products.create", id |-> st.nextId,
                             patch |-> [name |-> name, type |-> type,
                                        iid |-> iid, which |-> which]])]

ProductsUpdate(st, id, patch) ==
    IF st.thrown THEN st
    ELSE
    [st EXCEPT
        !.products = PatchById(@, id, patch),
        !.calls = Append(@, [op |-> "products.update", id |-> id, patch |-> patch])]

PricesCreate(st, amount, currency, product, active, interval, type, iid, which) ==
    IF st.thrown \/ Fails(st, "prices.create", iid, which) THEN st
    ELSE
    [st EXCEPT
        !.prices = <<[id |-> st.nextId, product |-> product, unit_amount |-> amount,
                      currency |-> currency, interval |-> interval, active |-> active,
                      iid |-> iid, type |-> type, which |-> which]>> \o @,
        !.nextId = @ + 1,
        !.calls = Append(@, [op |-> "prices.create", id |-> st.nextId,
                             patch |-> [unit_amount |-> amount,
                                        currency |-> currency,
                                        product |-> product, active |-> active,
                                        interval |-> interval, type |-> type,
                                        iid |-> iid, which |-> which]])]

PricesUpdate(st, id, patch) ==
    IF st.thrown THEN st
    ELSE
    [st EXCEPT
        !.prices = PatchById(@, id, patch),
        !.calls = Append(@, [op |-> "prices.update", id |-> id, patch |-> patch])]

---------------------------------------------------------------------------
(* Catalog model: resolving the remote listing to StripeTier / StripeAddon *)

Indices(s) == [i \in 1..Len(s) |-> i]

MonthlyIdx(pid, allPrices) ==
    FindIdx(allPrices, LAMBDA pr : pr.interval = "month" /\ pr.product = pid)

YearlyIdx(pid, allPrices) ==
    FindIdx(allPrices, LAMBDA pr : pr.interval = "year" /\ pr.product = pid)

\* The loop body's `continue` conditions for one product of the listing.
Listable(which, declared, getExtra, p, allPrices) ==
    /\ MonthlyIdx(p.id, allPrices) # 0
    /\ YearlyIdx(p.id, allPrices) # 0
    /\ p.iid # "" /\ p.type # "" /\ p.which # ""
    /\ p.which = which
    /\ (Some(declared, LAMBDA d : d.id = p.iid) \/ getExtra)

\* The entry pushed for a product; the resolver sets no yearlyMultiplier (0).
ListedEntry(p, allPrices) ==
    [id |-> p.iid, type |-> p.type, name |-> p.name, isActive |-> p.active,
     priceCents |-> allPrices[MonthlyIdx(p.id, allPrices)].unit_amount,
     yearlyMultiplier |-> 0,
     stripeProductId |-> p.id,
     monthlyPriceId |-> allPrices[MonthlyIdx(p.id, allPrices)].id,
     yearlyPriceId |-> allPrices[YearlyIdx(p.id, allPrices)].id]

\* Products are visited in listing order; a later product whose id is already
\* in the result is skipped.
ResolveListing(which, declared, getExtra, allProducts, allPrices) ==
    LET keep(i) ==
            /\ Listable(which, declared, getExtra, allProducts[i], allPrices)
            /\ \A j \in 1..(i - 1) :
                  ~(/\ Listable(which, declared, getExtra, allProducts[j], allPrices)
                    /\ allProducts[j].iid = allProducts[i].iid)
        kept == SelectSeq(Indices(allProducts), keep)
    IN  [k \in 1..Len(kept) |-> ListedEntry(allProducts[kept[k]], allPrices)]

getStripeTiersInternal(declared, getExtra, allProducts, allPrices) ==
    ResolveListing("tier", declared, getExtra, allProducts, allPrices)

getStripeAddonsInternal(declared, getExtra, allProducts, allPrices) ==
    ResolveListing("addon", declared, getExtra, allProducts, allPrices)

---------------------------------------------------------------------------
(* Catalog synchronizer *)

\* createOrUpdatePrice of createTier / createAddon with its .catch(() => null):
\* [st, id], id 0 being null.
createOrUpdatePrice(st, which, data, pid, interval, amount, allPrices) ==
    LET k == FindIdx(allPrices, LAMBDA pr :
                 pr.unit_amount = amount /\ pr.interval = interval /\ pr.product = pid)
    IN  IF k # 0
        THEN [st |-> IF ~allPrices[k].active
                     THEN PricesUpdate(st, allPrices[k].id, [active |-> TRUE])
                     ELSE st,
              id |-> allPrices[k].id]
        ELSE [st |-> PricesCreate(st, amount, CurrencyOr(data.currency), pid,
                                  data.isActive, interval, data.type, data.id, which),
              id |-> IF Fails(st, "prices.create", data.id, which) THEN 0
                     ELSE st.nextId]

\* for await (const price of productPrices) prices.update(price.id, {active: true})
RECURSIVE ReactivatePrices(_, _)
ReactivatePrices(st, ps) ==
    IF ps = <<>> THEN st
    ELSE ReactivatePrices(PricesUpdate(st, Head(ps).id, [active |-> TRUE]), Tail(ps))

\* createTier, from the product on: the monthly price, the yearly price, then
\* products.update(default_price: monthlyPrice.id).
SetDefaultPrice(y, pid, monthlyId) ==
    IF monthlyId = 0 \/ y.id = 0 THEN Fail(y.st)
    ELSE ProductsUpdate(y.st, pid, [default_price |-> monthlyId])

CreateYearly(m, which, data, pid, allPrices) ==
    SetDefaultPrice(
        createOrUpdatePrice(m.st, which, data, pid, "year",
            data.priceCents * getYearlyMultiplier(data.yearlyMultiplier), allPrices),
        pid, m.id)

CreatePrices(st, which, data, pid, allPrices) ==
    CreateYearly(
        createOrUpdatePrice(st, which, data, pid, "month", data.priceCents, allPrices),
        which, data, pid, allPrices)

\* createTier's product: created when the listing has none with the entry's id,
\* type and kind; reactivated with its inactive prices when inactive; renamed
\* when the name differs.
EnsureProduct(st, which, data, k, allProducts, allPrices) ==
    IF k = 0
    THEN ProductsCreate(st, data.name, data.type, data.id, which)
    ELSE IF ~allProducts[k].active
    THEN ReactivatePrices(
             ProductsUpdate(st, allProducts[k].id,
                 IF which = "tier"
                 THEN [active |-> TRUE, name |-> data.name]
                 ELSE [active |-> TRUE]),
             SelectSeq(allPrices, LAMBDA pr :
                 pr.product = allProducts[k].id /\ pr.active = FALSE))
    ELSE IF allProducts[k].name # data.name
    THEN ProductsUpdate(st, allProducts[k].id, [name |-> data.name])
    ELSE st

\* createTier / createAddon without the check of the declared price
CreateEntry_Unchecked(st, which, data, allProducts, allPrices) ==
    LET k == FindIdx(allProducts, LAMBDA p :
                 p.iid = data.id /\ p.type = data.type /\ p.which = which)
    IN  CreatePrices(EnsureProduct(st, which, data, k, allProducts, allPrices),
                     which, data,
                     IF k = 0 THEN st.nextId ELSE allProducts[k].id,
                     allPrices)

\* createTier / createAddon. A throw is caught by the caller's .catch(() => null),
\* so the run continues from the state reached.
CreateEntry(st, which, data, allProducts, allPrices) ==
    LET k == FindIdx(allProducts, LAMBDA p :
                 p.iid = data.id /\ p.type = data.type /\ p.which = which)
    IN  IF data.priceCents <= 0 THEN st
        ELSE CreatePrices(EnsureProduct(st, which, data, k, allProducts, allPrices),
                          which, data,
                          IF k = 0 THEN st.nextId ELSE allProducts[k].id,
                          allPrices)

createTier(st, data, allProducts, allPrices) ==
    CreateEntry(st, "tier", data, allProducts, allPrices)

createAddon(st, data, allProducts, allPrices) ==
    CreateEntry(st, "addon", data, allProducts, allPrices)

\* allPrices.find(...) || await prices.create(...).catch(() => null) of
\* changePrice: [st, id], id 0 being null.
FindOrCreatePrice(st, which, entry, amount, currency, interval, allPrices) ==
    LET k == FindIdx(allPrices, LAMBDA pr :
                 /\ pr.active = TRUE
                 /\ pr.currency = currency
                 /\ pr.unit_amount = amount
                 /\ pr.interval = interval
                 /\ pr.product = entry.stripeProductId
                 /\ pr.iid = entry.id
                 /\ pr.which = which
                 /\ pr.type = entry.type)
    IN  IF k # 0 THEN [st |-> st, id |-> allPrices[k].id]
        ELSE [st |-> PricesCreate(st, amount, CurrencyOr(currency),
                                  entry.stripeProductId, TRUE, interval,
                                  entry.type, entry.id, which),
              id |-> IF Fails(st, "prices.create", entry.id, which) THEN 0
                     ELSE st.nextId]

\* if (old && new.id !== old.id) prices.update(old.id, {active: false})
DeactivateSuperseded(st, newId, oldId) ==
    IF newId # oldId THEN PricesUpdate(st, oldId, [active |-> FALSE]) ELSE st

\* changePrice, after both prices are found or created: the default price is
\* repointed, then the entry's previous prices are deactivated.
Retarget(y, monthlyId, entry) ==
    IF monthlyId = 0 \/ y.id = 0 THEN Fail(y.st)
    ELSE
    DeactivateSuperseded(
        DeactivateSuperseded(
            ProductsUpdate(y.st, entry.stripeProductId, [default_price |-> monthlyId]),
            monthlyId, entry.monthlyPriceId),
        y.id, entry.yearlyPriceId)

ChangeYearly(m, which, entry, priceCents, currency, allPrices) ==
    Retarget(
        FindOrCreatePrice(m.st, which, entry,
            priceCents * getYearlyMultiplier(entry.yearlyMultiplier),
            currency, "year", allPrices),
        m.id, entry)

\* changePrice patching the amounts of the entry's prices in place.
ChangePriceOf_InPlace(st, which, entry, priceCents, currency, allPrices) ==
    IF priceCents = entry.priceCents THEN st
    ELSE PricesUpdate(
             PricesUpdate(st, entry.monthlyPriceId, [unit_amount |-> priceCents]),
             entry.yearlyPriceId,
             [unit_amount |-> priceCents * getYearlyMultiplier(entry.yearlyMultiplier)])

\* The body of changePrice once the entry is resolved from the listing (the
\* listing sets no yearlyMultiplier on it).
ChangePriceOf(st, which, entry, priceCents, currency, allPrices) ==
    IF priceCents = entry.priceCents THEN st
    ELSE ChangeYearly(
             FindOrCreatePrice(st, which, entry, priceCents, currency, "month", allPrices),
             which, entry, priceCents, currency, allPrices)

\* changePrice of StripeTiers and of StripeAddons
ChangePrice(st, which, id, priceCents, currency, allProducts, allPrices) ==
    LET entries == ResolveListing(which, <<>>, TRUE, allProducts, allPrices)
        k == FindIdx(entries, LAMBDA e : e.id = id)
    IN  IF k = 0 THEN st                         \* throws: not reached from sync
        ELSE ChangePriceOf(st, which, entries[k], priceCents, currency, allPrices)

\* products.update + prices.update x2 with one active flag
SetEntryActive(st, entry, isActive) ==
    PricesUpdate(
        PricesUpdate(
            ProductsUpdate(st, entry.stripeProductId, [active |-> isActive]),
            entry.monthlyPriceId, [active |-> isActive]),
        entry.yearlyPriceId, [active |-> isActive])

\* StripeTiers.changeActiveState: resolves against the run's snapshot.
Tiers_changeActiveState(st, id, isActive, allProducts, allPrices) ==
    LET entries == getStripeTiersInternal(<<>>, TRUE, allProducts, allPrices)
        k == FindIdx(entries, LAMBDA e : e.id = id)
    IN  IF k = 0 THEN st
        ELSE IF entries[k].isActive = isActive THEN st
        ELSE SetEntryActive(st, entries[k], isActive)

\* StripeAddons.changeActiveState: the snapshot's products with a fresh price
\* listing, and no early return.
Addons_changeActiveState(st, id, isActive, allProducts) ==
    LET entries == getStripeAddonsInternal(<<>>, TRUE, allProducts, st.prices)
        k == FindIdx(entries, LAMBDA e : e.id = id)
    IN  IF k = 0 THEN st
        ELSE SetEntryActive(st, entries[k], isActive)

\* deleteTier / deleteAddon
DeleteEntry(st, which, id, allProducts, allPrices) ==
    LET entries == ResolveListing(which, <<>>, TRUE, allProducts, allPrices)
        k == FindIdx(entries, LAMBDA e : e.id = id)
    IN  IF k = 0 THEN st ELSE SetEntryActive(st, entries[k], FALSE)

\* The four comparisons updateExistingTiers makes for one declared entry d
\* against its listed counterpart e, in the order of the code.
SyncPrice(st, which, d, e, allProducts, allPrices) ==
    IF e.priceCents # d.priceCents
    THEN ChangePrice(st, which, d.id, d.priceCents, CurrencyOr(d.currency),
                     allProducts, allPrices)
    ELSE st

SyncActive(st, which, d, e, allProducts, allPrices) ==
    IF e.isActive # d.isActive
    THEN IF which = "tier"
         THEN Tiers_changeActiveState(st, d.id, d.isActive, allProducts, allPrices)
         ELSE Addons_changeActiveState(st, d.id, d.isActive, allProducts)
    ELSE st

SyncName(st, d, e) ==
    IF e.name # d.name
    THEN ProductsUpdate(st, e.stripeProductId, [name |-> d.name])
    ELSE st

SyncType(st, which, d, e) ==
    IF e.type # d.type
    THEN ProductsUpdate(st, e.stripeProductId,
                        [type |-> d.type, iid |-> d.id, which |-> which])
    ELSE st

UpdateOne(st, which, d, e, allProducts, allPrices) ==
    SyncType(
        SyncName(
            SyncActive(
                SyncPrice(st, which, d, e, allProducts, allPrices),
                which, d, e, allProducts, allPrices),
            d, e),
        which, d, e)

\* updateExistingTiers / updateExistingAddons: one declared entry after another.
RECURSIVE UpdateExisting(_, _, _, _, _, _)
UpdateExisting(st, which, found, stripeEntries, allProducts, allPrices) ==
    LET k == FindIdx(stripeEntries, LAMBDA e : e.id = Head(found).id)
    IN  IF found = <<>> THEN st
        ELSE UpdateExisting(
                 IF k = 0 THEN st
                 ELSE UpdateOne(st, which, Head(found), stripeEntries[k],
                                allProducts, allPrices),
                 which, Tail(found), stripeEntries, allProducts, allPrices)

\* createMissingTiers / createMissingAddons
RECURSIVE CreateMissing(_, _, _, _, _)
CreateMissing(st, which, missing, allProducts, allPrices) ==
    IF missing = <<>> \/ st.thrown THEN st
    ELSE CreateMissing(
             Caught(CreateEntry(st, which, Head(missing), allProducts, allPrices)),
             which, Tail(missing), allProducts, allPrices)

\* deleteExtraTiers / deleteExtraAddons
RECURSIVE DeleteExtra(_, _, _, _, _)
DeleteExtra(st, which, extra, allProducts, allPrices) ==
    IF extra = <<>> THEN st
    ELSE DeleteExtra(DeleteEntry(st, which, Head(extra).id, allProducts, allPrices),
                     which, Tail(extra), allProducts, allPrices)

\* syncOrCreateTiers, after the listing is resolved: missing entries are
\* created, found ones updated, extra active ones deactivated.
Reconcile(st, which, declared, stripeEntries, allProducts, allPrices) ==
    DeleteExtra(
        UpdateExisting(
            CreateMissing(st, which,
                SelectSeq(declared, LAMBDA d :
                    ~Some(stripeEntries, LAMBDA e : e.id = d.id)),
                allProducts, allPrices),
            which,
            SelectSeq(declared, LAMBDA d : Some(stripeEntries, LAMBDA e : e.id = d.id)),
            stripeEntries, allProducts, allPrices),
        which,
        SelectSeq(stripeEntries, LAMBDA e :
            ~Some(declared, LAMBDA d : d.id = e.id) /\ e.isActive),
        allProducts, allPrices)

\* syncOrCreateTiers / syncOrCreateAddons: one listing of products and prices is
\* taken at the start and used throughout.
SyncOrCreate(st, which, declared) ==
    Reconcile(st, which, declared,
              ResolveListing(which, declared, TRUE, st.products, st.prices),
              st.products, st.prices)

syncOrCreateTiers(st, cfg) == SyncOrCreate(st, "tier", cfg.premiumTiers)

syncOrCreateAddons(st, cfg) == SyncOrCreate(st, "addon", cfg.addons)

\* The manager's emit.
Emit(st, ev) == [st EXCEPT !.emitted = Append(@, ev)]

RECURSIVE DeleteEndpoints(_, _)
DeleteEndpoints(st, whs) ==
    IF whs = <<>> THEN st
    ELSE DeleteEndpoints(
             Emit([st EXCEPT
                      !.endpoints = SelectSeq(@, LAMBDA w : w.id # Head(whs).id),
                      !.calls = Append(@, [op |-> "webhookEndpoints.del",
                                           id |-> Head(whs).id, patch |-> <<>>])],
                  [name |-> "debug"]),
             Tail(whs))

\* webhookEndpoints.create and the assignment of the new endpoint's secret
CreateEndpoint(st, cfg) ==
    Emit([st EXCEPT
             !.endpoints = <<[id |-> st.nextId, url |-> cfg.stripeWebhookUrl,
                              internal |-> "StripeCord", secret |-> st.nextId]>> \o @,
             !.nextId = @ + 1,
             !.secret = st.nextId,
             !.calls = Append(@, [op |-> "webhookEndpoints.create",
                                  id |-> st.nextId, patch |-> <<>>])],
         [name |-> "debug"])

\* validateWebhook: a secret is 0 (null), -1 (the configured one) or the id of
\* the endpoint it was issued for.
validateWebhook(st, cfg) ==
    IF st.secret # 0 THEN Emit(st, [name |-> "debug"])
    ELSE CreateEndpoint(
             DeleteEndpoints(st,
                 SelectSeq(st.endpoints, LAMBDA w :
                     w.url = cfg.stripeWebhookUrl \/ w.internal = "StripeCord")),
             cfg)

syncAll(st, cfg) ==
    syncOrCreateAddons(syncOrCreateTiers(validateWebhook(st, cfg), cfg), cfg)

---------------------------------------------------------------------------
(* Declared catalogs the synchronizer is run with *)

DeclaredTiers ==
    {[id |-> "t1", type |-> "user", name |-> "Gold", priceCents |-> pc,
      yearlyMultiplier |-> 0, currency |-> "", isActive |-> a] :
        pc \in {0, 1, 2}, a \in BOOLEAN}

DeclaredAddons ==
    {[id |-> "a1", type |-> "user", name |-> "Slots", priceCents |-> 1,
      yearlyMultiplier |-> 2, currency |-> "", isActive |-> TRUE],
     [id |-> "a1", type |-> "guild", name |-> "Slots+", priceCents |-> 2,
      yearlyMultiplier |-> 2, currency |-> "", isActive |-> FALSE],
     [id |-> "a1", type |-> "user", name |-> "Slots", priceCents |-> 1,
      yearlyMultiplier |-> 1, currency |-> "", isActive |-> TRUE],
     [id |-> "a1", type |-> "user", name |-> "Slots", priceCents |-> 1,
      yearlyMultiplier |-> -1, currency |-> "", isActive |-> TRUE],
     [id |-> "a1", type |-> "user", name |-> "Slots", priceCents |-> 0,
      yearlyMultiplier |-> 2, currency |-> "", isActive |-> TRUE]}

SyncConfigs ==
    {[premiumTiers |-> ts, addons |-> as, stripeWebhookUrl |-> "hook",
      stripeWebhookSecret |-> sec, invoiceAllOnDisputeLoss |-> <<>>] :
        ts \in {<<>>} \cup {<<t>> : t \in DeclaredTiers},
        as \in {<<>>} \cup {<<a>> : a \in DeclaredAddons},
        sec \in {0}}

Catalog(cfg) == [done |-> TRUE, premiumTiers |-> cfg.premiumTiers, addons |-> cfg.addons]

NoCatalog == [done |-> FALSE, premiumTiers |-> <<>>, addons |-> <<>>]

Returned == [kind |-> "return", status |-> 0, message |-> ""]

---------------------------------------------------------------------------
(* Actions of the synchronizer *)

\* new PremiumManager(config): the process (re)starts with a declared catalog;
\* the remote platform keeps its state.
Construct(cfg) ==
    /\ runs < MaxRuns
    /\ cfg # config
    /\ cfg.stripeWebhookSecret = config.stripeWebhookSecret
    /\ config' = cfg
    /\ webhookSecret' = cfg.stripeWebhookSecret
    /\ op' = [name |-> "constructor"]
    /\ calls' = <<>>
    /\ emitted' = <<>>
    /\ result' = Returned
    /\ UNCHANGED <<running, products, prices, endpoints, customers, subscriptions,
                   sessions, nextId, runs, synced>>

\* PremiumManager.syncAll -> StripeManager.syncAll
\* A syncAll run during which the platform rejects the create calls in fail; a
\* run that throws has not synchronized the catalog.
SyncAllWith(fail) ==
    /\ runs < MaxRuns
    /\ \E st \in {syncAll([products |-> products, prices |-> prices,
                           endpoints |-> endpoints, secret |-> webhookSecret,
                           calls |-> <<>>, emitted |-> <<>>, nextId |-> nextId,
                           failing |-> fail, thrown |-> FALSE],
                          config)} :
           /\ products' = st.products
           /\ prices' = st.prices
           /\ endpoints' = st.endpoints
           /\ webhookSecret' = st.secret
           /\ nextId' = st.nextId
           /\ calls' = st.calls
           /\ emitted' = st.emitted
           /\ result' = IF st.thrown
                        THEN [kind |-> "throw", status |-> 0,
                              message |-> "Failed to create or update prices."]
                        ELSE Returned
           /\ synced' = IF st.thrown THEN NoCatalog ELSE Catalog(config)
    /\ op' = [name |-> "syncAll", again |-> (synced = Catalog(config)),
              failing |-> fail]
    /\ runs' = runs + 1
    /\ UNCHANGED <<config, customers, subscriptions, sessions, running>>

SyncAll == SyncAllWith({})

InitSync ==
    /\ config \in SyncConfigs
    /\ webhookSecret = config.stripeWebhookSecret
    /\ products = <<>>
    /\ prices = <<>>
    /\ endpoints = <<>>
    /\ customers = <<>>
    /\ subscriptions = <<>>
    /\ sessions = <<>>
    /\ nextId = 1
    /\ op = [name |-> "constructor"]
    /\ calls = <<>>
    /\ emitted = <<>>
    /\ result = Returned
    /\ runs = 0
    /\ synced = NoCatalog
    /\ running = <<>>

NextSync ==
    \/ \E cfg \in SyncConfigs : Construct(cfg)
    \/ SyncAll

SpecSync == InitSync /\ [][NextSync]_vars

---------------------------------------------------------------------------
(* Properties of the catalog synchronizer *)

IsCatalogWrite(c) ==
    c.op \in {"products.create", "products.update", "prices.create", "prices.update"}

ActivePricesOf(pid, interval) ==
    {i \in 1..Len(prices) :
        prices[i].product = pid /\ prices[i].interval = interval /\ prices[i].active}

\* The remote counterpart of a declared entry: the listing resolves it, it has
\* exactly one active monthly and one active yearly price, and its default
\* price is that monthly price.
WellPriced(which, d) ==
    LET entries == ResolveListing(which, <<>>, TRUE, products, prices)
        k == FindIdx(entries, LAMBDA e : e.id = d.id)
        pid == entries[k].stripeProductId
        p == products[FindIdx(products, LAMBDA q : q.id = pid)]
    IN  /\ k # 0
        /\ Cardinality(ActivePricesOf(pid, "month")) = 1
        /\ Cardinality(ActivePricesOf(pid, "year")) = 1
        /\ \A i \in ActivePricesOf(pid, "month") : p.default_price = prices[i].id

\* C1: a syncAll run with the declared catalog of the run before it, against
\* the remote state that run left, issues no product or price create or update.
C1_SecondRunIsSilent ==
    (op.name = "syncAll" /\ op.again) => ~Some(calls, IsCatalogWrite)

\* C2: after every completed syncAll run, every declared active tier and add-on
\* (with a price the synchronizer accepts, > 0) has a remote product with
\* exactly one active monthly price, exactly one active yearly price, and that
\* monthly price as its default price.
C2_OneActivePricePair ==
    op.name = "syncAll" =>
        /\ Every(config.premiumTiers, LAMBDA d :
               (d.isActive /\ d.priceCents > 0) => WellPriced("tier", d))
        /\ Every(config.addons, LAMBDA d :
               (d.isActive /\ d.priceCents > 0) => WellPriced("addon", d))

\* C3: no step changes the amount, currency, interval or product of an
\* existing remote price; a price update carries the active flag only; no
\* product and no price is ever deleted.
C3_PricesAreImmutable ==
    [][/\ \A i \in 1..Len(prices) : \E j \in 1..Len(prices') :
              /\ prices'[j].id = prices[i].id
              /\ prices'[j].unit_amount = prices[i].unit_amount
              /\ prices'[j].currency = prices[i].currency
              /\ prices'[j].interval = prices[i].interval
              /\ prices'[j].product = prices[i].product
       /\ \A i \in 1..Len(products) : \E j \in 1..Len(products') :
              products'[j].id = products[i].id
       /\ \A i \in 1..Len(calls') :
              /\ calls'[i].op = "prices.update" => DOMAIN calls'[i].patch = {"active"}
              /\ calls'[i].op \notin {"products.del", "prices.del"}]_vars

\* A run that changed the price of an entry that already had remote prices.
C3_Witness ==
    /\ op.name = "syncAll"
    /\ Some(calls, LAMBDA c : c.op = "prices.create")
    /\ Some(calls, LAMBDA c : c.op = "prices.update" /\ c.patch = [active |-> FALSE])

---------------------------------------------------------------------------
(* Webhook processing: StripeManager.webhookHandler *)

\* A remote object as an event carries it: null (<<>>, by value), the object
\* itself (<<x>>, by value), or its id (ref), which the platform resolves to
\* the object (<<x>>) or fails to resolve (<<>>).
Null == [ref |-> FALSE, data |-> <<>>]

Expanded(x) == [ref |-> FALSE, data |-> <<x>>]

ById(x) == [ref |-> TRUE, data |-> <<x>>]

Unretrievable == [ref |-> TRUE, data |-> <<>>]

Pending == [kind |-> "pending", status |-> 0, message |-> ""]

\* return { status, message }: the first return ends the handler.
Return(st, status, message) ==
    IF st.result # Pending THEN st
    ELSE [st EXCEPT !.result = [kind |-> "return", status |-> status,
                                message |-> message]]

\* throw new Error(message)
Throw(st, message) ==
    IF st.result # Pending THEN st
    ELSE [st EXCEPT !.result = [kind |-> "throw", status |-> 0, message |-> message]]

\* this.manager.emit(name, data)
EmitEvent(st, name, data) ==
    IF st.result # Pending THEN st
    ELSE Emit(st, [name |-> name, data |-> data])

\* a remote call that leaves the catalog alone; after is the number of events
\* the operation has emitted when it issues the call
Call(st, name, id) ==
    IF st.result # Pending THEN st
    ELSE [st EXCEPT !.calls = Append(@, [op |-> name, id |-> id, patch |-> <<>>,
                                         after |-> Len(st.emitted)])]

\* typeof x === 'string' ? await retrieve(x).catch(() => null) : x
Retrieve(st, name, r) == IF r.ref THEN Call(st, name, 0) ELSE st

\* internalGetAllProducts + internalGetAllPrices
ListCatalog(st) == Call(Call(st, "products.list", 0), "prices.list", 0)

getStripeTiers(st, cfg) ==
    getStripeTiersInternal(cfg.premiumTiers, FALSE, st.products, st.prices)

getStripeAddons(st, cfg) ==
    getStripeAddonsInternal(cfg.addons, FALSE, st.products, st.prices)

\* { ...addon, quantity: item.quantity }
WithQuantity(addon, quantity) ==
    [f \in DOMAIN addon \cup {"quantity"} |->
        IF f = "quantity" THEN quantity ELSE addon[f]]

\* The items whose price metadata names one of the listed entries
KnownItems(items, entries) ==
    SelectSeq(items, LAMBDA it :
        it.iid # "" /\ Some(entries, LAMBDA e : e.id = it.iid))

EntryOf(entries, iid) == entries[FindIdx(entries, LAMBDA e : e.id = iid)]

\* getAddonsFromItems giving every add-on the quantity 1.
getAddonsFromItems_UnitQuantity(items, stripeAddons) ==
    [i \in 1..Len(KnownItems(items, stripeAddons)) |->
        WithQuantity(EntryOf(stripeAddons, KnownItems(items, stripeAddons)[i].iid), 1)]

getAddonsFromItems(items, stripeAddons) ==
    [i \in 1..Len(KnownItems(items, stripeAddons)) |->
        WithQuantity(EntryOf(stripeAddons, KnownItems(items, stripeAddons)[i].iid),
                     KnownItems(items, stripeAddons)[i].quantity)]

getTiersFromItems(items, stripeTiers) ==
    [i \in 1..Len(KnownItems(items, stripeTiers)) |->
        EntryOf(stripeTiers, KnownItems(items, stripeTiers)[i].iid)]

\* getAddonsFromItems(items) without a listing: no items, no remote call.
ListForItems(st, items) == IF items = <<>> THEN st ELSE ListCatalog(st)

AddonsOfItems(st, cfg, items) ==
    IF items = <<>> THEN <<>> ELSE getAddonsFromItems(items, getStripeAddons(st, cfg))

\* checkIfTierChange without the comparison of the two tier ids.
checkIfTierChange_Unequal(newItems, oldItems, stripeTiers) ==
    IF getTiersFromItems(newItems, stripeTiers) = <<>>
       \/ getTiersFromItems(oldItems, stripeTiers) = <<>>
    THEN <<>>
    ELSE <<[newTierId |-> getTiersFromItems(newItems, stripeTiers)[1].id,
            oldTierId |-> getTiersFromItems(oldItems, stripeTiers)[1].id]>>

\* checkIfTierChange naming the tiers by the tags of the first items, whether
\* the listing has them or not
checkIfTierChange_ByItemTag(newItems, oldItems, stripeTiers) ==
    IF newItems = <<>> \/ oldItems = <<>> THEN <<>>
    ELSE IF newItems[1].iid = oldItems[1].iid THEN <<>>
    ELSE <<[newTierId |-> newItems[1].iid, oldTierId |-> oldItems[1].iid]>>

\* checkIfTierChange, given the listing it fetches: <<>> is null.
checkIfTierChange(newItems, oldItems, stripeTiers) ==
    IF getTiersFromItems(newItems, stripeTiers) = <<>>
       \/ getTiersFromItems(oldItems, stripeTiers) = <<>>
    THEN <<>>
    ELSE IF getTiersFromItems(newItems, stripeTiers)[1].id
            = getTiersFromItems(oldItems, stripeTiers)[1].id
    THEN <<>>
    ELSE <<[newTierId |-> getTiersFromItems(newItems, stripeTiers)[1].id,
            oldTierId |-> getTiersFromItems(oldItems, stripeTiers)[1].id]>>

\* The quantity differs, or there is no previous counterpart.
IsDifferent(newAddon, previousAddons) ==
    \/ ~Some(previousAddons, LAMBDA a : a.id = newAddon.id)
    \/ EntryOf(previousAddons, newAddon.id).quantity # newAddon.quantity

AddonChange(currentAddons, previousAddons) ==
    IF ~Some(currentAddons, LAMBDA n : IsDifferent(n, previousAddons)) THEN <<>>
    ELSE <<[currentAddons |-> currentAddons,
            previousAddons |-> previousAddons,
            changedQuantity |-> SelectSeq(currentAddons, LAMBDA n :
                /\ Some(previousAddons, LAMBDA a : a.id = n.id)
                /\ EntryOf(previousAddons, n.id).quantity # n.quantity)]>>

\* checkIfAddonChange comparing against the old items even when there are none.
checkIfAddonChange_NoFallback(newItems, oldItems, stripeAddons) ==
    AddonChange(getAddonsFromItems(newItems, stripeAddons),
                getAddonsFromItems(oldItems, stripeAddons))

\* checkIfAddonChange, given the listing: <<>> is null.
checkIfAddonChange(newItems, oldItems, stripeAddons) ==
    AddonChange(getAddonsFromItems(newItems, stripeAddons),
                getAddonsFromItems(IF oldItems # <<>> THEN oldItems ELSE newItems,
                                   stripeAddons))

\* The first loop of the add-on classification: the changed quantities that
\* addonItems resolves, tagged Updated.
UpdatedEntries(changedQuantity, addonItems) ==
    [i \in 1..Len(changedQuantity) |->
        [whatHappened |-> "updated",
         addon |-> EntryOf(addonItems, changedQuantity[i].id),
         qty |-> changedQuantity[i].quantity]]

\* The second loop without the look-up of an entry pushed by the first.
RECURSIVE ClassifyCurrent_NoExistsCheck(_, _, _)
ClassifyCurrent_NoExistsCheck(addonUpdates, currentAddons, previousAddons) ==
    IF currentAddons = <<>> THEN addonUpdates
    ELSE ClassifyCurrent_NoExistsCheck(
             IF ~Some(previousAddons, LAMBDA a : a.id = Head(currentAddons).id)
             THEN Append(addonUpdates,
                      [whatHappened |-> "added", addon |-> Head(currentAddons),
                       qty |-> Head(currentAddons).quantity])
             ELSE IF EntryOf(previousAddons, Head(currentAddons).id).quantity
                          # Head(currentAddons).quantity
             THEN Append(addonUpdates,
                      [whatHappened |-> "updated", addon |-> Head(currentAddons),
                       qty |-> Head(currentAddons).quantity])
             ELSE addonUpdates,
             Tail(currentAddons), previousAddons)

\* The second loop: one current add-on after another, against the entries
\* pushed so far.
RECURSIVE ClassifyCurrent(_, _, _)
ClassifyCurrent(addonUpdates, currentAddons, previousAddons) ==
    IF currentAddons = <<>> THEN addonUpdates
    ELSE ClassifyCurrent(
             IF ~Some(previousAddons, LAMBDA a : a.id = Head(currentAddons).id)
             THEN Append(addonUpdates,
                      [whatHappened |-> "added", addon |-> Head(currentAddons),
                       qty |-> Head(currentAddons).quantity])
             ELSE IF /\ EntryOf(previousAddons, Head(currentAddons).id).quantity
                          # Head(currentAddons).quantity
                     /\ ~Some(addonUpdates, LAMBDA u :
                            u.addon.id = Head(currentAddons).id)
             THEN Append(addonUpdates,
                      [whatHappened |-> "updated", addon |-> Head(currentAddons),
                       qty |-> Head(currentAddons).quantity])
             ELSE addonUpdates,
             Tail(currentAddons), previousAddons)

\* The third and the fourth loop: every add-on of a list, under one tag.
Tagged(whatHappened, addons) ==
    [i \in 1..Len(addons) |->
        [whatHappened |-> whatHappened, addon |-> addons[i],
         qty |-> addons[i].quantity]]

\* addonUpdates of the subscriptionAddonsUpdate event
AddonUpdates(change, addonItems) ==
    ClassifyCurrent(
        UpdatedEntries(
            SelectSeq(change.changedQuantity, LAMBDA c :
                Some(addonItems, LAMBDA a : a.id = c.id)),
            addonItems),
        change.currentAddons, change.previousAddons)
    \o Tagged("removed",
           SelectSeq(change.previousAddons, LAMBDA o :
               ~Some(change.currentAddons, LAMBDA n : n.id = o.id)))
    \o Tagged("nothing",
           SelectSeq(addonItems, LAMBDA a :
               ~Some(change.currentAddons, LAMBDA n : n.id = a.id)))

\* The metadata contract without the check of guildId and isUserSub.
BadMetadata_NoSubject(metadata) ==
    metadata.tierId = "" \/ metadata.userId = ""

\* The metadata contract of a subscription
BadMetadata(metadata) ==
    \/ metadata.tierId = ""
    \/ metadata.userId = ""
    \/ (metadata.guildId = "" /\ metadata.isUserSub = "")

\* config.premiumTiers.find((tier) => tier.tierId === tierId): 0 is undefined.
TierIdx(cfg, tierId) == FindIdx(cfg.premiumTiers, LAMBDA t : t.id = tierId)

\* The fields every subscription event carries
SubscriptionData(cfg, subscription, addons) ==
    [type |-> IF subscription.metadata.isUserSub = "true" THEN "user" ELSE "guild",
     tier |-> cfg.premiumTiers[TierIdx(cfg, subscription.metadata.tierId)],
     isAnnual |-> subscription.metadata.isAnnual = "true",
     addons |-> addons,
     userId |-> subscription.metadata.userId,
     guildId |-> subscription.metadata.guildId]

Processed(st) == Return(st, 200, "Webhook processed successfully.")

\* stripe.subscriptions.cancel(id, params)
SubscriptionsCancel(st, id, params) ==
    IF st.result # Pending THEN st
    ELSE [st EXCEPT
             !.subscriptions = PatchById(@, id, [status |-> "canceled"]),
             !.calls = Append(@, [op |-> "subscriptions.cancel", id |-> id,
                                  patch |-> params])]

\* The event invoice.paid emits for a billing reason ("" is none), swapped.
BillingEvent_Swapped(billing_reason) ==
    IF billing_reason = "subscription_create" THEN "subscriptionRenew"
    ELSE IF billing_reason = "subscription_cycle" THEN "subscriptionCreate"
    ELSE ""

\* switch (invoice.data.billing_reason): the event emitted, "" for none.
BillingEvent(billing_reason) ==
    IF billing_reason = "subscription_create" THEN "subscriptionCreate"
    ELSE IF billing_reason = "subscription_cycle" THEN "subscriptionRenew"
    ELSE ""

\* invoice.paid, from the subscription on (<<>> is null)
InvoicePaidFor(st, cfg, invoice, subscription) ==
    IF subscription = <<>>
    THEN Return(st, 400, "Failed to retrieve subscription data.")
    ELSE IF BadMetadata(subscription[1].metadata)
    THEN Return(st, 400, "Missing metadata in subscription.")
    ELSE IF TierIdx(cfg, subscription[1].metadata.tierId) = 0
    THEN Return(st, 400, "Tier not found locally (#1).")
    ELSE IF BillingEvent(invoice.billing_reason) = ""
    THEN Processed(st)
    ELSE Processed(
             EmitEvent(ListForItems(st, subscription[1].items),
                 BillingEvent(invoice.billing_reason),
                 SubscriptionData(cfg, subscription[1],
                     AddonsOfItems(st, cfg, subscription[1].items))))

\* case 'invoice.paid', from the invoice on (<<>> is null)
OnInvoicePaid(st, cfg, invoice) ==
    IF invoice = <<>> \/ invoice[1].subscription = Null
    THEN Return(st, 400, "Missing subscription data.")
    ELSE InvoicePaidFor(
             Retrieve(st, "subscriptions.retrieve", invoice[1].subscription),
             cfg, invoice[1], invoice[1].subscription.data)

\* subscription.previous.items?.data || []
PreviousItems(previous) == IF previous.items = <<>> THEN <<>> ELSE previous.items[1]

\* if (status === 'canceled' && previous.status !== 'canceled') emit subscriptionCancel
EmitCancel(st, cfg, subscription, previous, addonItems) ==
    IF subscription.status = "canceled" /\ previous.status # "canceled"
    THEN EmitEvent(st, "subscriptionCancel",
             SubscriptionData(cfg, subscription, addonItems))
    ELSE st

\* if (downgradeOrUpgrade) ...: the tiers are looked up locally (#3).
EmitTierChangeOf(st, cfg, subscription, addonItems, downgradeOrUpgrade) ==
    IF downgradeOrUpgrade = <<>> THEN st
    ELSE IF \/ TierIdx(cfg, downgradeOrUpgrade[1].newTierId) = 0
            \/ TierIdx(cfg, downgradeOrUpgrade[1].oldTierId) = 0
    THEN Return(st, 400, "Tier not found locally (#3).")
    ELSE EmitEvent(st, "subscriptionTierChange",
             [type |-> IF subscription.metadata.isUserSub = "true"
                       THEN "user" ELSE "guild",
              newTier |-> cfg.premiumTiers[TierIdx(cfg, downgradeOrUpgrade[1].newTierId)],
              oldTier |-> cfg.premiumTiers[TierIdx(cfg, downgradeOrUpgrade[1].oldTierId)],
              isAnnual |-> subscription.metadata.isAnnual = "true",
              addons |-> addonItems,
              userId |-> subscription.metadata.userId,
              guildId |-> subscription.metadata.guildId])

\* checkIfTierChange lists the catalog itself.
EmitTierChange(st, cfg, subscription, previous, addonItems) ==
    EmitTierChangeOf(ListCatalog(st), cfg, subscription, addonItems,
        checkIfTierChange(subscription.items, PreviousItems(previous),
                          getStripeTiers(st, cfg)))

\* if (addonsChange) ... emit subscriptionAddonsUpdate
EmitAddonsUpdateOf(st, cfg, subscription, addonItems, addonsChange) ==
    IF addonsChange = <<>> THEN st
    ELSE EmitEvent(st, "subscriptionAddonsUpdate",
             [type |-> IF subscription.metadata.isUserSub = "true"
                       THEN "user" ELSE "guild",
              tier |-> cfg.premiumTiers[TierIdx(cfg, subscription.metadata.tierId)],
              isAnnual |-> subscription.metadata.isAnnual = "true",
              currentAddons |-> addonsChange[1].currentAddons,
              addonUpdates |-> AddonUpdates(addonsChange[1], addonItems),
              userId |-> subscription.metadata.userId,
              guildId |-> subscription.metadata.guildId])

\* checkIfAddonChange lists the catalog again when it is handed no add-ons.
EmitAddonsUpdate(st, cfg, subscription, previous, stripeAddons, addonItems) ==
    EmitAddonsUpdateOf(
        IF stripeAddons = <<>> THEN ListCatalog(st) ELSE st,
        cfg, subscription, addonItems,
        checkIfAddonChange(subscription.items, PreviousItems(previous), stripeAddons))

\* The emissions of customer.subscription.updated with subscriptionUpdate
\* emitted first.
UpdatedEmit_UpdateFirst(st, cfg, subscription, previous, stripeAddons, addonItems) ==
    Processed(
        EmitAddonsUpdate(
            EmitTierChange(
                EmitCancel(
                    EmitEvent(st, "subscriptionUpdate",
                        SubscriptionData(cfg, subscription, addonItems)),
                    cfg, subscription, previous, addonItems),
                cfg, subscription, previous, addonItems),
            cfg, subscription, previous, stripeAddons, addonItems))

\* customer.subscription.updated, once the tier is known locally
UpdatedEmit(st, cfg, subscription, previous, stripeAddons, addonItems) ==
    Processed(
        EmitEvent(
            EmitAddonsUpdate(
                EmitTierChange(
                    EmitCancel(st, cfg, subscription, previous, addonItems),
                    cfg, subscription, previous, addonItems),
                cfg, subscription, previous, stripeAddons, addonItems),
            "subscriptionUpdate",
            SubscriptionData(cfg, subscription, addonItems)))

\* customer.subscription.updated, after getStripeAddons()
UpdatedWith(st, cfg, subscription, previous, stripeAddons) ==
    IF TierIdx(cfg, subscription.metadata.tierId) = 0
    THEN Return(st, 400, "Tier not found locally (#2).")
    ELSE UpdatedEmit(st, cfg, subscription, previous, stripeAddons,
                     getAddonsFromItems(subscription.items, stripeAddons))

\* case 'customer.subscription.updated' (previous: <<>> is undefined)
OnSubscriptionUpdated(st, cfg, subscription, previous) ==
    IF previous = <<>>
    THEN Return(st, 400, "Missing subscription data.")
    ELSE IF BadMetadata(subscription.metadata)
    THEN Return(st, 400, "Missing metadata in subscription.")
    ELSE UpdatedWith(ListCatalog(st), cfg, subscription, previous[1],
                     getStripeAddons(st, cfg))

\* case 'customer.subscription.deleted' (subscription: <<>> is null)
OnSubscriptionDeleted(st, cfg, subscription) ==
    IF subscription = <<>>
    THEN Return(st, 400, "Failed to retrieve subscription data.")
    ELSE IF BadMetadata(subscription[1].metadata)
    THEN Return(st, 400, "Missing metadata in subscription.")
    ELSE IF TierIdx(cfg, subscription[1].metadata.tierId) = 0
    THEN Return(st, 400, "Tier not found locally (#4).")
    ELSE Processed(
             EmitEvent(ListForItems(st, subscription[1].items),
                 "subscriptionDelete",
                 SubscriptionData(cfg, subscription[1],
                     AddonsOfItems(st, cfg, subscription[1].items))))

\* The fields an invoice event adds to those of a subscription event
InvoiceData(data, invoice, status, shouldNotifyUser, autoHandled) ==
    [type |-> data.type, tier |-> data.tier, isAnnual |-> data.isAnnual,
     addons |-> data.addons, userId |-> data.userId, guildId |-> data.guildId,
     status |-> status,
     attemptCount |-> invoice.attempt_count,
     autoHandled |-> autoHandled,
     collectionMethod |-> IF invoice.collection_method = "charge_automatically"
                          THEN "chargeAutomatically" ELSE "sendInvoice",
     shouldNotifyUser |-> shouldNotifyUser,
     hostedUrl |-> invoice.hosted_invoice_url]

\* ['paid', 'void', 'uncollectible'].includes(invoice.data.status)
AlreadyResolved(invoice) == invoice.status \in {"paid", "void", "uncollectible"}

NeedsPayment(invoice) ==
    /\ invoice.status = "open"
    /\ \/ invoice.collection_method = "send_invoice"
       \/ (invoice.collection_method = "charge_automatically" /\ invoice.proration)
       \/ invoice.attempt_count > 0

\* invoice.finalized, from the subscription on
InvoiceFinalizedFor(st, cfg, invoice, subscription) ==
    IF subscription = <<>>
    THEN Return(st, 400, "Failed to retrieve subscription data.")
    ELSE IF BadMetadata(subscription[1].metadata)
    THEN Return(st, 400, "Missing metadata in subscription.")
    ELSE IF TierIdx(cfg, subscription[1].metadata.tierId) = 0
    THEN Return(st, 400, "Tier not found locally.")
    ELSE Processed(
             EmitEvent(ListForItems(st, subscription[1].items),
                 "invoiceNeedsPayment",
                 InvoiceData(
                     SubscriptionData(cfg, subscription[1],
                         AddonsOfItems(st, cfg, subscription[1].items)),
                     invoice, "pendingPayment",
                     /\ invoice.status = "open"
                     /\ \/ invoice.collection_method = "send_invoice"
                        \/ /\ invoice.collection_method = "charge_automatically"
                           /\ invoice.hosted_invoice_url # ""
                           /\ ~invoice.auto_advance,
                     invoice.auto_advance)))

\* case 'invoice.finalized', from the invoice on
OnInvoiceFinalized(st, cfg, invoice) ==
    IF invoice = <<>> \/ invoice[1].subscription = Null
    THEN Return(st, 400, "Missing subscription data.")
    ELSE IF AlreadyResolved(invoice[1])
    THEN Return(st, 200, "Invoice already resolved.")
    ELSE IF invoice[1].billing_reason \in {"subscription_create", "subscription_cycle"}
    THEN Return(st, 200, "Billing reason ignored.")
    ELSE IF ~NeedsPayment(invoice[1])
    THEN Return(st, 200, "Invoice does not require immediate attention.")
    ELSE InvoiceFinalizedFor(
             Retrieve(st, "subscriptions.retrieve", invoice[1].subscription),
             cfg, invoice[1], invoice[1].subscription.data)

\* invoice.payment_failed / invoice.payment_action_required with
\* shouldNotifyUser not looking at the status of the invoice.
PaymentFailedFor_AnyStatus(st, cfg, type, invoice, subscription) ==
    IF subscription = <<>>
    THEN Return(st, 400, "Failed to retrieve subscription data.")
    ELSE IF BadMetadata(subscription[1].metadata)
    THEN Return(st, 400, "Missing metadata in subscription.")
    ELSE IF TierIdx(cfg, subscription[1].metadata.tierId) = 0
    THEN Return(st, 400, "Tier not found locally (#5).")
    ELSE Processed(
             EmitEvent(ListForItems(st, subscription[1].items),
                 "invoicePaymentFailed",
                 InvoiceData(
                     SubscriptionData(cfg, subscription[1],
                         AddonsOfItems(st, cfg, subscription[1].items)),
                     invoice,
                     IF type = "invoice.payment_failed"
                     THEN "paymentFailed" ELSE "requiresAction",
                     \/ type = "invoice.payment_action_required"
                     \/ (type = "invoice.payment_failed"
                         /\ invoice.hosted_invoice_url # ""),
                     /\ invoice.auto_advance
                     /\ invoice.collection_method = "charge_automatically")))

\* invoice.payment_failed / invoice.payment_action_required, from the
\* subscription on
PaymentFailedFor(st, cfg, type, invoice, subscription) ==
    IF subscription = <<>>
    THEN Return(st, 400, "Failed to retrieve subscription data.")
    ELSE IF BadMetadata(subscription[1].metadata)
    THEN Return(st, 400, "Missing metadata in subscription.")
    ELSE IF TierIdx(cfg, subscription[1].metadata.tierId) = 0
    THEN Return(st, 400, "Tier not found locally (#5).")
    ELSE Processed(
             EmitEvent(ListForItems(st, subscription[1].items),
                 "invoicePaymentFailed",
                 InvoiceData(
                     SubscriptionData(cfg, subscription[1],
                         AddonsOfItems(st, cfg, subscription[1].items)),
                     invoice,
                     IF type = "invoice.payment_failed"
                     THEN "paymentFailed" ELSE "requiresAction",
                     /\ invoice.status = "open"
                     /\ \/ type = "invoice.payment_action_required"
                        \/ (type = "invoice.payment_failed"
                            /\ invoice.hosted_invoice_url # ""),
                     /\ invoice.auto_advance
                     /\ invoice.collection_method = "charge_automatically")))

\* case 'invoice.payment_failed' / 'invoice.payment_action_required'
OnPaymentFailed(st, cfg, type, invoice) ==
    IF invoice = <<>> \/ invoice[1].subscription = Null
    THEN Return(st, 400, "Missing subscription data.")
    ELSE IF AlreadyResolved(invoice[1])
    THEN Return(st, 200, "Invoice already resolved.")
    ELSE PaymentFailedFor(
             Retrieve(st, "subscriptions.retrieve", invoice[1].subscription),
             cfg, type, invoice[1], invoice[1].subscription.data)

\* A charge the platform refuses to refund (it is refunded already)
RefundRefused(charge) == charge = 2

\* await this.stripe.refunds.create({ charge }): a rejection is not caught.
RefundsCreate(st, charge) ==
    IF RefundRefused(charge)
    THEN Throw(Call(st, "refunds.create", charge), "refunds.create rejected")
    ELSE Call(st, "refunds.create", charge)

\* case 'radar.early_fraud_warning.created' asking for the refund before it
\* emits.
OnFraudWarning_RefundFirst(st, warning) ==
    Processed(
        IF warning.actionable
        THEN EmitEvent(RefundsCreate(st, warning.charge), "earlyFraudWarning", warning)
        ELSE EmitEvent(st, "earlyFraudWarning", warning))

\* case 'radar.early_fraud_warning.created'
OnFraudWarning(st, warning) ==
    Processed(
        IF warning.actionable
        THEN RefundsCreate(EmitEvent(st, "earlyFraudWarning", warning), warning.charge)
        ELSE EmitEvent(st, "earlyFraudWarning", warning))

\* options?.stripe?.invoiceAllOnDisputeLoss || false (<<>> is undefined)
OrFalse(option) == IF option = <<>> THEN FALSE ELSE option[1]

\* charge.dispute.funds_withdrawn always asking for the final invoice.
FundsWithdrawnFor_InvoiceNow(st, cfg, charge) ==
    IF charge = <<>>
    THEN Return(st, 400, "Failed to retrieve charge data.")
    ELSE IF charge[1].invoice.ref \/ charge[1].invoice.data = <<>>
    THEN Return(st, 400, "Failed to retrieve invoice data.")
    ELSE IF \/ charge[1].invoice.data[1].subscription.ref
            \/ charge[1].invoice.data[1].subscription.data = <<>>
    THEN Return(st, 400, "Failed to retrieve subscription data.")
    ELSE Processed(
             SubscriptionsCancel(st, charge[1].invoice.data[1].subscription.data[1].id,
                 [invoice_now |-> TRUE]))

\* charge.dispute.funds_withdrawn, from the retrieved charge on
FundsWithdrawnFor(st, cfg, charge) ==
    IF charge = <<>>
    THEN Return(st, 400, "Failed to retrieve charge data.")
    ELSE IF charge[1].invoice.ref \/ charge[1].invoice.data = <<>>
    THEN Return(st, 400, "Failed to retrieve invoice data.")
    ELSE IF \/ charge[1].invoice.data[1].subscription.ref
            \/ charge[1].invoice.data[1].subscription.data = <<>>
    THEN Return(st, 400, "Failed to retrieve subscription data.")
    ELSE Processed(
             SubscriptionsCancel(st, charge[1].invoice.data[1].subscription.data[1].id,
                 [invoice_now |-> OrFalse(cfg.invoiceAllOnDisputeLoss)]))

\* case 'charge.dispute.created'
OnDisputeCreated(st, dispute) ==
    Processed(
        EmitEvent(Retrieve(st, "charges.retrieve", dispute.charge),
            "disputeWarning",
            [amount |-> dispute.amount, reason |-> dispute.reason,
             isRefundable |-> dispute.is_charge_refundable,
             dashboardUrl |-> [test |-> ~dispute.livemode,
                                payment |-> dispute.payment_intent],
             charge |-> dispute.charge.data]))

\* default: returning without the emission
OnUnhandled_Silent(st, payload) ==
    Return(st, 400, "Unhandled Stripe webhook.")

\* default:
OnUnhandled(st, payload) ==
    Return(EmitEvent(st, "unprocessedWebhook", payload),
           400, "Unhandled Stripe webhook.")

\* catch of constructEventAsync, throwing before it emits
OnInvalidSignature_Silent(st, payload) ==
    Throw(st, "Invalid Stripe webhook")

\* catch (error) of constructEventAsync
OnInvalidSignature(st, payload) ==
    Throw(EmitEvent(st, "unprocessedWebhook", payload), "Invalid Stripe webhook")

\* switch (event.type)
Dispatch(st, cfg, ev) ==
    CASE ev.type = "invoice.paid" ->
             OnInvoicePaid(Retrieve(st, "invoices.retrieve", ev.object),
                           cfg, ev.object.data)
      [] ev.type = "customer.subscription.updated" ->
             OnSubscriptionUpdated(st, cfg, ev.object.data[1], ev.previous)
      [] ev.type = "customer.subscription.deleted" ->
             OnSubscriptionDeleted(
                 Retrieve(st, "subscriptions.retrieve", ev.object),
                 cfg, ev.object.data)
      [] ev.type = "invoice.finalized" ->
             OnInvoiceFinalized(Retrieve(st, "invoices.retrieve", ev.object),
                                cfg, ev.object.data)
      [] ev.type \in {"invoice.payment_failed", "invoice.payment_action_required"} ->
             OnPaymentFailed(Retrieve(st, "invoices.retrieve", ev.object),
                             cfg, ev.type, ev.object.data)
      [] ev.type = "radar.early_fraud_warning.created" ->
             OnFraudWarning(st, ev.object.data[1])
      [] ev.type = "charge.dispute.funds_withdrawn" ->
             FundsWithdrawnFor(Call(st, "charges.retrieve", 0), cfg,
                               ev.object.data[1].charge.data)
      [] ev.type = "charge.dispute.created" ->
             OnDisputeCreated(st, ev.object.data[1])
      [] OTHER -> OnUnhandled(st, ev.payload)

\* webhookHandler without the check of the secret
webhookHandler_Unchecked(st, cfg, ev) ==
    IF ~ev.sig
    THEN OnInvalidSignature(st, ev.payload)
    ELSE Dispatch(st, cfg, ev)

\* StripeManager.webhookHandler(payload, signature); ev is what
\* constructEventAsync makes of the payload, ev.sig whether it accepts the
\* signature.
webhookHandler(st, cfg, ev) ==
    IF st.secret = 0
    THEN Throw(st, "Failed to validate webhook, have you called validateWebhook()?")
    ELSE IF ~ev.sig
    THEN OnInvalidSignature(st, ev.payload)
    ELSE Dispatch(st, cfg, ev)

---------------------------------------------------------------------------
(* The events delivered to the webhook *)

WebhookConfigs ==
    {[premiumTiers |->
          <<[id |-> "t1", type |-> "user", name |-> "Gold", priceCents |-> 1,
             yearlyMultiplier |-> 0, currency |-> "", isActive |-> TRUE],
            [id |-> "t2", type |-> "guild", name |-> "Silver", priceCents |-> 2,
             yearlyMultiplier |-> 0, currency |-> "", isActive |-> TRUE]>>,
      addons |->
          <<[id |-> "a1", type |-> "user", name |-> "Slots", priceCents |-> 1,
             yearlyMultiplier |-> 0, currency |-> "", isActive |-> TRUE],
            [id |-> "a2", type |-> "user", name |-> "Boost", priceCents |-> 1,
             yearlyMultiplier |-> 0, currency |-> "", isActive |-> TRUE]>>,
      stripeWebhookUrl |-> "hook", stripeWebhookSecret |-> 0,
      invoiceAllOnDisputeLoss |-> b] : b \in {<<>>, <<FALSE>>, <<TRUE>>}}

\* subscription.metadata as createCheckoutSession writes it ("" is absent)
Metadata(tierId, userId, guildId, isUserSub) ==
    [tierId |-> tierId, userId |-> userId, guildId |-> guildId,
     isUserSub |-> isUserSub, isAnnual |-> "false"]

AcceptedMetadatas ==
    {Metadata("t1", "u1", "", "true"), Metadata("t2", "u1", "g1", ""),
     [Metadata("t1", "u1", "", "true") EXCEPT !.isAnnual = "true"]}

\* no tierId, no userId, neither guildId nor isUserSub, a tier not declared
RejectedMetadatas ==
    {Metadata("", "u1", "", "true"), Metadata("t1", "", "", "true"),
     Metadata("t1", "u1", "", ""), Metadata("t9", "u1", "", "true")}

Metadatas == AcceptedMetadatas \cup RejectedMetadatas

AddonPart(iid, quantity) ==
    IF quantity = 0 THEN <<>> ELSE <<[iid |-> iid, quantity |-> quantity]>>

\* subscription.items.data: the main tier item, then the add-on items
Snapshot(tierId, q1, q2) ==
    <<[iid |-> tierId, quantity |-> 1]>> \o AddonPart("a1", q1) \o AddonPart("a2", q2)

Subscription(metadata, status, items) ==
    [id |-> 1, metadata |-> metadata, status |-> status, items |-> items]

Invoice(subscription, billing_reason, status) ==
    [subscription |-> subscription, billing_reason |-> billing_reason,
     status |-> status, collection_method |-> "charge_automatically",
     proration |-> FALSE, attempt_count |-> 0, hosted_invoice_url |-> "",
     auto_advance |-> TRUE]

Event(type, object) ==
    [sig |-> TRUE, payload |-> "p1", type |-> type, object |-> object,
     previous |-> <<>>]

\* The ways an event refers to an invoice and the invoice to its subscription
InvoiceRefs(billing_reason, status) ==
    {Unretrievable,
     ById(Invoice(Null, billing_reason, status)),
     Expanded(Invoice(Null, billing_reason, status)),
     Expanded(Invoice(Unretrievable, billing_reason, status)),
     Expanded(Invoice(ById(Subscription(Metadata("t1", "u1", "", "true"), "active",
                                        Snapshot("t1", 1, 0))),
                      billing_reason, status))}

PaidEvents ==
    {Event("invoice.paid",
           Expanded(Invoice(Expanded(Subscription(md, "active", items)), reason, "paid"))) :
        md \in Metadatas,
        reason \in {"subscription_create", "subscription_cycle", "manual"},
        items \in {<<>>, Snapshot("t1", 1, 0)}}
    \cup {Event("invoice.paid", r) : r \in InvoiceRefs("subscription_cycle", "paid")}

\* Item lists of one or two items: tiers t1 and t2, a tier t9 the catalog does
\* not have, and a tier behind an add-on, behind t9 or behind another tier
TierItemLists ==
    {<<[iid |-> i, quantity |-> 1]>> : i \in {"t1", "t2", "t9"}}
    \cup {<<[iid |-> i, quantity |-> 1], [iid |-> j, quantity |-> 1]>> :
             i \in {"a1", "t9"}, j \in {"t1", "t2"}}
    \cup {<<[iid |-> "t1", quantity |-> 1], [iid |-> "t2", quantity |-> 1]>>}

UpdatedEvents ==
    {[Event("customer.subscription.updated",
            Expanded(Subscription(Metadata("t1", "u1", "", "true"), "canceled",
                                  Snapshot("t1", 1, 0))))
        EXCEPT !.previous = <<[status |-> "active",
                               items |-> <<Snapshot("t2", 0, 1)>>]>>]}
    \cup
    {[Event("customer.subscription.updated",
            Expanded(Subscription(Metadata("t1", "u1", "", "true"), "active", new)))
        EXCEPT !.previous = <<[status |-> "", items |-> <<old>>]>>] :
        new \in TierItemLists, old \in TierItemLists}
    \cup
    {[Event("customer.subscription.updated",
            Expanded(Subscription(Metadata("t1", "u1", "", "true"), "active",
                                  Snapshot("t1", q1, q2))))
        EXCEPT !.previous = <<[status |-> "", items |-> <<Snapshot("t1", p1, p2)>>]>>] :
        q1 \in 0..MaxQty, q2 \in 0..MaxQty, p1 \in 0..MaxQty, p2 \in 0..MaxQty}
    \cup
    {[Event("customer.subscription.updated",
            Expanded(Subscription(Metadata("t1", "u1", "", "true"), "active",
                                  Snapshot("t1", q1, q2))))
        EXCEPT !.previous = <<[status |-> "", items |-> <<Snapshot("t2", 1, 0)>>]>>] :
        q1 \in 0..MaxQty, q2 \in {0, 1}}
    \cup
    {[Event("customer.subscription.updated",
            Expanded(Subscription(md, status, Snapshot("t1", 1, 0))))
        EXCEPT !.previous = previous] :
        md \in Metadatas, status \in {"active", "canceled"},
        previous \in {<<>>} \cup
            {<<[status |-> ps, items |-> <<>>]>> : ps \in {"", "active", "canceled"}}}

DeletedEvents ==
    {Event("customer.subscription.deleted", r) :
        r \in {Unretrievable}
              \cup {Expanded(Subscription(md, "canceled", Snapshot("t1", 1, 0))) :
                        md \in Metadatas}
              \cup {ById(Subscription(md, "canceled", <<>>)) : md \in AcceptedMetadatas}}

\* Invoices of a subscription, open unless resolved, in every combination of
\* what the payment heuristics read
OpenInvoices(subscription) ==
    {[Invoice(Expanded(subscription), "manual", "open") EXCEPT
          !.collection_method = cm, !.proration = pr, !.attempt_count = ac,
          !.hosted_invoice_url = url, !.auto_advance = aa] :
        cm \in {"charge_automatically", "send_invoice"}, pr \in BOOLEAN,
        ac \in {0, 1}, url \in {"", "url"}, aa \in BOOLEAN}

FinalizedEvents ==
    {Event("invoice.finalized", Expanded(inv)) :
        inv \in OpenInvoices(Subscription(Metadata("t1", "u1", "", "true"), "active",
                                          Snapshot("t1", 1, 0)))}
    \cup {Event("invoice.finalized",
                Expanded([Invoice(Expanded(Subscription(md, "active", <<>>)),
                                  "manual", "open") EXCEPT !.attempt_count = 1])) :
             md \in Metadatas}
    \cup {Event("invoice.finalized", r) :
             r \in InvoiceRefs("manual", "open") \cup InvoiceRefs("manual", "paid")
                   \cup InvoiceRefs("subscription_cycle", "open")
                   \cup InvoiceRefs("manual", "draft")}

FailedEvents ==
    {Event(type, Expanded(inv)) :
        type \in {"invoice.payment_failed", "invoice.payment_action_required"},
        inv \in {[Invoice(Expanded(Subscription(md, "active", Snapshot("t1", 1, 0))),
                          "manual", status) EXCEPT !.hosted_invoice_url = url] :
                    md \in Metadatas, status \in {"open", "draft", "void"},
                    url \in {"", "url"}}}
    \cup {Event(type, r) :
             type \in {"invoice.payment_failed", "invoice.payment_action_required"},
             r \in InvoiceRefs("manual", "open")}
    \cup {Event(type,
                 Expanded([Invoice(Expanded(Subscription(Metadata("t1", "u1", "", "true"),
                                                         "active", Snapshot("t1", 1, 0))),
                                   "manual", status) EXCEPT !.hosted_invoice_url = "url"])) :
             type \in {"invoice.payment_failed", "invoice.payment_action_required"},
             status \in {"paid", "uncollectible"}}

FraudEvents ==
    {Event("radar.early_fraud_warning.created",
           Expanded([actionable |-> a, charge |-> c])) : a \in BOOLEAN, c \in {1, 2}}

\* The charge of a dispute as charges.retrieve returns it, invoice.subscription
\* expanded
DisputedCharges ==
    {Unretrievable}
    \cup {ById([id |-> 1, invoice |-> r]) :
             r \in {Null, Unretrievable}
                   \cup {Expanded([subscription |-> sr]) :
                            sr \in {Null, Unretrievable,
                                    Expanded(Subscription(Metadata("t1", "u1", "", "true"),
                                                          "active", <<>>))}}}

DisputeEvents ==
    {Event("charge.dispute.funds_withdrawn", Expanded([charge |-> r])) :
        r \in DisputedCharges}
    \cup {Event("charge.dispute.created",
                Expanded([amount |-> 1, reason |-> "fraudulent",
                          is_charge_refundable |-> TRUE, livemode |-> lm,
                          payment_intent |-> "pi", charge |-> r])) :
             lm \in BOOLEAN,
             r \in {Unretrievable, ById([id |-> 1]), Expanded([id |-> 1])}}

\* An event type the handler has no case for, and deliveries whose signature
\* constructEventAsync rejects
OtherEvents ==
    {[Event("customer.created", Null) EXCEPT !.payload = p] : p \in {"p1", "p2"}}
    \cup {[Event(type, Null) EXCEPT !.payload = p, !.sig = FALSE] :
             p \in {"p1", "p2"}, type \in {"invoice.paid", "customer.created"}}

Events ==
    PaidEvents \cup UpdatedEvents \cup DeletedEvents \cup FinalizedEvents
    \cup FailedEvents \cup FraudEvents \cup DisputeEvents \cup OtherEvents

---------------------------------------------------------------------------
(* Webhook deliveries to a manager *)

\* The platform account before the manager first runs
NewAccount ==
    [products |-> <<>>, prices |-> <<>>, endpoints |-> <<>>,
     customers |-> <<>>, subscriptions |-> <<>>, sessions |-> <<>>,
     secret |-> 0, calls |-> <<>>, emitted |-> <<>>, nextId |-> 1,
     failing |-> {}, thrown |-> FALSE, result |-> Pending]

\* A manager just constructed, or after its first syncAll.
InitWebhook ==
    \E cfg \in WebhookConfigs, booted \in BOOLEAN :
        \E st \in {IF booted THEN syncAll(NewAccount, cfg) ELSE NewAccount} :
            /\ config = cfg
            /\ webhookSecret = st.secret
            /\ products = st.products
            /\ prices = st.prices
            /\ endpoints = st.endpoints
            /\ customers = <<>>
            /\ subscriptions = <<>>
            /\ sessions = <<>>
            /\ nextId = st.nextId
            /\ op = IF booted THEN [name |-> "syncAll", again |-> FALSE, failing |-> {}]
                    ELSE [name |-> "constructor"]
            /\ calls = st.calls
            /\ emitted = st.emitted
            /\ result = Returned
            /\ runs = IF booted THEN 1 ELSE 0
            /\ synced = IF booted THEN Catalog(cfg) ELSE NoCatalog
            /\ running = <<>>

\* One delivery: StripeManager.webhookHandler
WebhookHandler(ev) ==
    /\ \E st \in {webhookHandler(
                      [products |-> products, prices |-> prices,
                       subscriptions |-> subscriptions, secret |-> webhookSecret,
                       calls |-> <<>>, emitted |-> <<>>, result |-> Pending],
                      config, ev)} :
           /\ subscriptions' = st.subscriptions
           /\ calls' = st.calls
           /\ emitted' = st.emitted
           /\ result' = st.result
    /\ op' = [name |-> "webhookHandler", event |-> ev]
    /\ UNCHANGED <<running, config, webhookSecret, products, prices, endpoints, customers,
                   sessions, nextId, runs, synced>>

NextWebhook == \E ev \in Events : WebhookHandler(ev)

SpecWebhook == InitWebhook /\ [][NextWebhook]_vars

---------------------------------------------------------------------------
(* Properties of webhook processing *)

\* The last operation was a delivery to a manager holding a secret.
Delivered == op.name = "webhookHandler" /\ webhookSecret # 0

\* ... and constructEventAsync accepted its signature.
Verified == Delivered /\ op.event.sig

Count(name) == Cardinality({i \in 1..Len(emitted) : emitted[i].name = name})

\* The add-on ids of a list of subscription items, as the listing resolves them
SnapshotIds(items) ==
    {it.id : it \in {getAddonsFromItems(items,
                         getStripeAddonsInternal(config.addons, FALSE, products, prices))[k] :
                     k \in 1..Len(getAddonsFromItems(items,
                         getStripeAddonsInternal(config.addons, FALSE, products, prices)))}}

QuantityIn(items, iid) ==
    items[CHOOSE k \in 1..Len(items) : items[k].iid = iid].quantity

\* C4: in every emitted subscriptionAddonsUpdate, each add-on id of the old or
\* the new snapshot has exactly one entry in addonUpdates, and an add-on held
\* in both snapshots at the same quantity is tagged "nothing".
C4_PartitionComplete ==
    (Verified /\ op.event.type = "customer.subscription.updated"
        /\ op.event.previous # <<>>) =>
        \A i \in 1..Len(emitted) :
            emitted[i].name = "subscriptionAddonsUpdate" =>
                \A a \in SnapshotIds(op.event.object.data[1].items)
                         \cup SnapshotIds(PreviousItems(op.event.previous[1])) :
                    /\ Cardinality({j \in 1..Len(emitted[i].data.addonUpdates) :
                           emitted[i].data.addonUpdates[j].addon.id = a}) = 1
                    /\ (/\ a \in SnapshotIds(op.event.object.data[1].items)
                        /\ a \in SnapshotIds(PreviousItems(op.event.previous[1]))
                        /\ QuantityIn(op.event.object.data[1].items, a)
                             = QuantityIn(PreviousItems(op.event.previous[1]), a))
                       => \E j \in 1..Len(emitted[i].data.addonUpdates) :
                              /\ emitted[i].data.addonUpdates[j].addon.id = a
                              /\ emitted[i].data.addonUpdates[j].whatHappened = "nothing"

\* An invoice.paid delivery whose invoice and subscription resolve, with
\* metadata the contract accepts and a tier declared locally
PaidForKnownTier ==
    /\ Verified
    /\ op.event.type = "invoice.paid"
    /\ op.event.object.data # <<>>
    /\ op.event.object.data[1].subscription.data # <<>>
    /\ ~BadMetadata(op.event.object.data[1].subscription.data[1].metadata)
    /\ TierIdx(config, op.event.object.data[1].subscription.data[1].metadata.tierId) # 0

\* C5: invoice.paid for a subscription with valid metadata and a locally known
\* tier emits exactly one subscriptionRenew and no subscriptionCreate for
\* billing reason subscription_cycle, exactly one subscriptionCreate and no
\* subscriptionRenew for subscription_create, neither for any other reason,
\* and returns status 200 in all three cases.
C5_InvoicePaid ==
    PaidForKnownTier =>
        /\ result.kind = "return" /\ result.status = 200
        /\ Count("subscriptionRenew") =
               (IF op.event.object.data[1].billing_reason = "subscription_cycle"
                THEN 1 ELSE 0)
        /\ Count("subscriptionCreate") =
               (IF op.event.object.data[1].billing_reason = "subscription_create"
                THEN 1 ELSE 0)

\* A renewal invoice was delivered and its event emitted.
C5_Witness ==
    /\ PaidForKnownTier
    /\ op.event.object.data[1].billing_reason = "subscription_cycle"
    /\ op.event.object.data[1].subscription.data[1].items # <<>>
    /\ Count("subscriptionRenew") = 1

\* C6: a delivery whose signature is rejected emits exactly one
\* unprocessedWebhook carrying the raw payload and nothing else, makes no
\* remote call, and ends in a throw.
C6_InvalidSignature ==
    (Delivered /\ ~op.event.sig) =>
        /\ emitted = <<[name |-> "unprocessedWebhook", data |-> op.event.payload]>>
        /\ calls = <<>>
        /\ result.kind = "throw"

\* A delivery of payload p2 was rejected for its signature.
C6_Witness ==
    /\ Delivered /\ ~op.event.sig
    /\ op.event.payload = "p2"
    /\ result.kind = "throw"

\* The event types webhookHandler has a case for
HandledTypes ==
    {"invoice.paid", "customer.subscription.updated", "customer.subscription.deleted",
     "invoice.finalized", "invoice.payment_failed", "invoice.payment_action_required",
     "radar.early_fraud_warning.created", "charge.dispute.funds_withdrawn",
     "charge.dispute.created"}

\* C7 as stated: a verified event of an unhandled type returns status 400 with
\* the message "Unhandled webhook", having emitted exactly one
\* unprocessedWebhook and nothing else.
C7_UnhandledAsStated ==
    (Verified /\ op.event.type \notin HandledTypes) =>
        /\ result = [kind |-> "return", status |-> 400, message |-> "Unhandled webhook"]
        /\ emitted = <<[name |-> "unprocessedWebhook", data |-> op.event.payload]>>

\* C7, amended: a verified event of an unhandled type returns, without
\* throwing, status 400 with the message "Unhandled Stripe webhook.", having
\* emitted exactly one unprocessedWebhook carrying the payload and nothing else.
C7_Unhandled ==
    (Verified /\ op.event.type \notin HandledTypes) =>
        /\ result = [kind |-> "return", status |-> 400,
                     message |-> "Unhandled Stripe webhook."]
        /\ emitted = <<[name |-> "unprocessedWebhook", data |-> op.event.payload]>>

\* A verified delivery of an unhandled type was answered.
C7_Witness ==
    /\ Verified
    /\ op.event.type = "customer.created"
    /\ op.event.payload = "p2"
    /\ result.status = 400

\* The subscription a delivery is about once processing reaches it: <<>> when
\* it does not (the invoice is missing, already resolved, or needs no payment)
\* or when the subscription cannot be retrieved.
AffectedSubscription(ev) ==
    IF ev.type \in {"customer.subscription.updated", "customer.subscription.deleted"}
    THEN ev.object.data
    ELSE IF ev.type \notin {"invoice.paid", "invoice.finalized", "invoice.payment_failed",
                            "invoice.payment_action_required"}
    THEN <<>>
    ELSE IF ev.object.data = <<>> THEN <<>>
    ELSE IF ev.type # "invoice.paid" /\ AlreadyResolved(ev.object.data[1]) THEN <<>>
    ELSE IF /\ ev.type = "invoice.finalized"
            /\ \/ ev.object.data[1].billing_reason
                     \in {"subscription_create", "subscription_cycle"}
               \/ ~NeedsPayment(ev.object.data[1])
    THEN <<>>
    ELSE ev.object.data[1].subscription.data

\* C8: when the subscription a subscription or invoice delivery reaches lacks
\* tierId, lacks userId, lacks both guildId and isUserSub, or names a tier that
\* is not declared, no subscription or invoice event is emitted and the handler
\* returns, without throwing, a status-400 result.
C8_MetadataContract ==
    (/\ Verified
     /\ AffectedSubscription(op.event) # <<>>
     /\ \/ AffectedSubscription(op.event)[1].metadata.tierId = ""
        \/ AffectedSubscription(op.event)[1].metadata.userId = ""
        \/ /\ AffectedSubscription(op.event)[1].metadata.guildId = ""
           /\ AffectedSubscription(op.event)[1].metadata.isUserSub = ""
        \/ TierIdx(config, AffectedSubscription(op.event)[1].metadata.tierId) = 0) =>
        /\ emitted = <<>>
        /\ result.kind = "return"
        /\ result.status = 400

\* An update of a subscription naming an undeclared tier was rejected after
\* the add-on listing.
C8_Witness ==
    /\ Verified
    /\ op.event.type = "customer.subscription.updated"
    /\ op.event.previous # <<>>
    /\ op.event.object.data[1].metadata.tierId = "t9"
    /\ calls # <<>>
    /\ result.status = 400

---------------------------------------------------------------------------
(* The subscription mutation operations.                                   *)
(* st = [products, prices, customers, subscriptions, sessions, nextId,     *)
(* calls, emitted, result] is threaded through one operation; calls holds  *)
(* every remote call, reads included. An item of a subscription is         *)
(* [id, price, iid, quantity], iid being price.metadata._internal_id.      *)

\* the number of operations in one behaviour
MaxOps == 4

\* return true
Succeed(st) == Return(st, 0, "true")

\* stripe.subscriptions.retrieve(id).catch(() => null): 0 is null.
SubscriptionIdx(st, id) == FindIdx(st.subscriptions, LAMBDA s : s.id = id)

\* internalGetAllSubscriptions(options): a listing without a status leaves
\* canceled subscriptions out; customer 0 is no customer filter.
ListSubscriptions(st, customer) ==
    SelectSeq(st.subscriptions, LAMBDA s :
        s.status # "canceled" /\ (customer = 0 \/ s.customer = customer))

\* getSubscriptionsFor({ customerId }).user is not null
HasUserSubscription(st, customer) ==
    Some(ListSubscriptions(st, customer), LAMBDA s : s.metadata.isUserSub # "")

\* getGuildSubscription({ guildId }) is not null
HasGuildSubscription(st, guildId) ==
    Some(ListSubscriptions(st, 0), LAMBDA s : s.metadata.guildId = guildId)

\* The remote calls of getUserSubscription({ customerId })
getUserSubscription(st, customer) ==
    IF ~Some(st.customers, LAMBDA c : c.id = customer)
    THEN Throw(Call(st, "customers.retrieve", customer), "Failed to get customer.")
    ELSE Call(Call(st, "customers.retrieve", customer), "subscriptions.list", customer)

\* The remote call of getGuildSubscription
getGuildSubscription(st) == Call(st, "subscriptions.list", 0)

\* getCustomer({ email, userId }): 0 is null.
CustomerIdx(st, data) ==
    FindIdx(st.customers, LAMBDA c : c.email = data.email /\ c.userId = data.userId)

\* stripe.customers.create
CustomersCreate(st, data) ==
    IF st.result # Pending THEN st
    ELSE [st EXCEPT
             !.customers = <<[id |-> st.nextId, email |-> data.email,
                              userId |-> data.userId, balance |-> 0]>> \o @,
             !.nextId = @ + 1,
             !.calls = Append(@, [op |-> "customers.create", id |-> st.nextId,
                                  patch |-> data])]

\* stripe.customers.update
CustomersUpdate(st, id, patch) ==
    IF st.result # Pending THEN st
    ELSE [st EXCEPT
             !.customers = PatchById(@, id, patch),
             !.calls = Append(@, [op |-> "customers.update", id |-> id,
                                  patch |-> patch])]

\* getOrCreateCustomer: getCustomer, then createCustomer, which looks again.
getOrCreateCustomer(st, data) ==
    IF CustomerIdx(st, data) # 0 THEN Call(st, "customers.list", 0)
    ELSE CustomersCreate(Call(Call(st, "customers.list", 0), "customers.list", 0),
                         data)

\* stripe.subscriptions.update
SubscriptionsUpdate(st, id, patch) ==
    IF st.result # Pending THEN st
    ELSE [st EXCEPT
             !.subscriptions = PatchById(@, id, patch),
             !.calls = Append(@, [op |-> "subscriptions.update", id |-> id,
                                  patch |-> patch])]

\* stripe.checkout.sessions.create
SessionsCreate(st, customer, lineItems, metadata) ==
    IF st.result # Pending THEN st
    ELSE [st EXCEPT
             !.sessions = Append(@, [id |-> st.nextId, customer |-> customer,
                                     line_items |-> lineItems,
                                     metadata |-> metadata]),
             !.nextId = @ + 1,
             !.calls = Append(@, [op |-> "checkout.sessions.create",
                                  id |-> st.nextId, patch |-> metadata])]

\* price.metadata._internal_id of a remote price
PriceIid(allPrices, id) == allPrices[FindIdx(allPrices, LAMBDA p : p.id = id)].iid

\* A subscription item the platform creates for a price
NewItem(allPrices, price, quantity) ==
    [id |-> price, price |-> price, iid |-> PriceIid(allPrices, price),
     quantity |-> quantity]

\* One entry of SubscriptionUpdateParams.items; 0 is an absent field.
ItemParam(id, price, quantity, deleted) ==
    [id |-> id, price |-> price, quantity |-> quantity, deleted |-> deleted]

\* An item after the update entry that names it
UpdatedItem(allPrices, item, param) ==
    [id |-> item.id,
     price |-> IF param.price # 0 THEN param.price ELSE item.price,
     iid |-> PriceIid(allPrices, IF param.price # 0 THEN param.price ELSE item.price),
     quantity |-> IF param.quantity # 0 THEN param.quantity ELSE item.quantity]

\* The items of a subscription after subscriptions.update({ items })
ApplyItems(allPrices, items, params) ==
    LET kept == SelectSeq(items, LAMBDA it :
                    ~Some(params, LAMBDA p : p.id = it.id /\ p.deleted))
        added == SelectSeq(params, LAMBDA p : p.id = 0)
    IN  [i \in 1..Len(kept) |->
            IF Some(params, LAMBDA p : p.id = kept[i].id)
            THEN UpdatedItem(allPrices, kept[i],
                     params[FindIdx(params, LAMBDA p : p.id = kept[i].id)])
            ELSE kept[i]]
        \o [i \in 1..Len(added) |->
               NewItem(allPrices, added[i].price, added[i].quantity)]

\* isAnnual ? entry.yearlyPriceId : entry.monthlyPriceId
PriceOf(entry, isAnnual) ==
    IF isAnnual THEN entry.yearlyPriceId ELSE entry.monthlyPriceId

\* subscription.metadata.isUserSub === 'true' ? 'user' : 'guild'
SubscriptionType(subscription) ==
    IF subscription.metadata.isUserSub = "true" THEN "user" ELSE "guild"

\* subscription.items.data.find(item => _internal_id === metadata.tierId): 0 is
\* undefined.
MainItemIdx(subscription) ==
    FindIdx(subscription.items, LAMBDA it : it.iid = subscription.metadata.tierId)

---------------------------------------------------------------------------
(* createCheckoutSession *)

\* subscription_data.metadata of the session
CheckoutMetadata(data, tierData, customer) ==
    [tierId |-> tierData.id, userId |-> customer.userId,
     guildId |-> IF tierData.type = "user" THEN "" ELSE data.guildId,
     isUserSub |-> IF tierData.type = "user" THEN "true" ELSE "",
     isAnnual |-> IF data.isAnnual THEN "true" ELSE "false"]

\* line_items: the tier's price, then one line per requested add-on
LineItems(data, tierData, stripeAddons) ==
    <<[price |-> PriceOf(tierData, data.isAnnual), quantity |-> 1]>>
    \o [i \in 1..Len(data.addons) |->
           [price |-> PriceOf(EntryOf(stripeAddons, data.addons[i].id), data.isAnnual),
            quantity |-> data.addons[i].quantity]]

\* The loop over data.addons throws at the first add-on that is not listed or
\* is free; 0 if none is.
RefusedAddonIdx(data, stripeAddons) ==
    FindIdx(data.addons, LAMBDA a :
        \/ ~Some(stripeAddons, LAMBDA s : s.id = a.id)
        \/ EntryOf(stripeAddons, a.id).priceCents = 0)

CheckoutLines(st, data, tierData, stripeAddons, customer) ==
    IF RefusedAddonIdx(data, stripeAddons) # 0
    THEN (IF ~Some(stripeAddons, LAMBDA s :
                  s.id = data.addons[RefusedAddonIdx(data, stripeAddons)].id)
          THEN Throw(st, "Addon not found.")
          ELSE Throw(st, "Addons with a price of 0 cannot be subscribed to."))
    ELSE Return(SessionsCreate(st, customer.id,
                    LineItems(data, tierData, stripeAddons),
                    CheckoutMetadata(data, tierData, customer)),
                0, "session")

CheckoutSubject(st, data, tierData, stripeAddons, customer) ==
    IF customer.userId = "" THEN Throw(st, "Missing user ID in customer.")
    ELSE IF tierData.type = "user"
    THEN (IF HasUserSubscription(st, customer.id)
          THEN Throw(getUserSubscription(st, customer.id),
                     "User already has a user subscription.")
          ELSE CheckoutLines(getUserSubscription(st, customer.id), data, tierData,
                             stripeAddons, customer))
    ELSE (IF HasGuildSubscription(st, data.guildId)
          THEN Throw(getGuildSubscription(st), "Guild already has a guild subscription.")
          ELSE CheckoutLines(getGuildSubscription(st), data, tierData, stripeAddons,
                             customer))

CheckoutForCustomer(st, data, tierData, stripeAddons) ==
    CheckoutSubject(st, data, tierData, stripeAddons,
                    st.customers[CustomerIdx(st, data.customer)])

\* isAnyAddonNotUser / isAnyAddonNotGuild look at the whole listing.
CheckoutWithAddons(st, data, tierData, stripeAddons) ==
    IF Some(stripeAddons, LAMBDA a : a.type # tierData.type)
    THEN Throw(st, IF tierData.type = "user"
                   THEN "User subscriptions cannot have guild addons."
                   ELSE "Guild subscriptions cannot have user addons.")
    ELSE IF tierData.type = "user" /\ data.guildId # ""
    THEN Throw(st, "User subscriptions cannot be created for guilds.")
    ELSE IF tierData.type = "guild" /\ data.guildId = ""
    THEN Throw(st, "Guild subscriptions must be created for guilds.")
    ELSE CheckoutForCustomer(getOrCreateCustomer(st, data.customer), data, tierData,
                             stripeAddons)

CheckoutOf(st, cfg, data, tierData) ==
    IF tierData.priceCents = 0
    THEN Throw(st, "Tiers with a price of 0 cannot be subscribed to.")
    ELSE IF ~tierData.isActive THEN Throw(st, "Tier is not active.")
    ELSE IF Some(data.addons, LAMBDA a : a.quantity < 1)
    THEN Throw(st, "Addon quantities must be at least 1.")
    ELSE IF data.addons = <<>> THEN CheckoutWithAddons(st, data, tierData, <<>>)
    ELSE CheckoutWithAddons(ListCatalog(st), data, tierData, getStripeAddons(st, cfg))

CheckoutForTier(st, cfg, data, stripeTiers) ==
    IF ~Some(stripeTiers, LAMBDA t : t.id = data.tierId)
    THEN Throw(st, "Tier not found (#4).")
    ELSE CheckoutOf(st, cfg, data, EntryOf(stripeTiers, data.tierId))

createCheckoutSession(st, cfg, data) ==
    CheckoutForTier(ListCatalog(st), cfg, data, getStripeTiers(st, cfg))

\* The platform completes a session: the subscription it creates has the
\* session's customer, line items and subscription_data.metadata.
CompletedSubscription(st, session) ==
    [id |-> st.nextId, customer |-> session.customer, status |-> "active",
     cancel_at_period_end |-> FALSE, metadata |-> session.metadata,
     items |-> [i \in 1..Len(session.line_items) |->
                   NewItem(st.prices, session.line_items[i].price,
                           session.line_items[i].quantity)],
     latest_invoice |-> st.nextId + 1]

CompleteSession(st, session) ==
    [st EXCEPT
        !.sessions = SelectSeq(@, LAMBDA s : s.id # session.id),
        !.subscriptions = <<CompletedSubscription(st, session)>> \o @,
        !.nextId = @ + 2,
        !.result = Returned]

---------------------------------------------------------------------------
(* changeSubscriptionTier and changeSubscriptionAddons *)

\* options?.chargeType || 'immediate' ("" is undefined)
ChargeTypeOr(options) ==
    IF options.chargeType = "" THEN "immediate" ELSE options.chargeType

\* if (chargeType === 'immediate') 'create_prorations' else 'none'
Proration(options) ==
    IF ChargeTypeOr(options) = "immediate" THEN "create_prorations" ELSE "none"

\* options?.dueDays || config.options?.stripe?.defaultDueDays || 7 (0 is
\* undefined)
DueDays(options, cfg) ==
    IF options.dueDays # 0 THEN options.dueDays
    ELSE IF cfg.defaultDueDays # 0 THEN cfg.defaultDueDays
    ELSE 7

\* stripe.invoices.create(params)
InvoicesCreate(st, subscription, params) ==
    IF st.result # Pending THEN st
    ELSE [st EXCEPT !.calls = Append(@, [op |-> "invoices.create",
                                         id |-> subscription.id, patch |-> params])]

\* The finalized invoice of a prorated change paid whatever its total.
Settle_PayAlways(st, subscription, invoice) ==
    Call(EmitEvent(st, "debug", "charged"), "invoices.pay", subscription.id)

\* The invoice of a prorated change: created, finalized, then credited to the
\* customer's balance or paid.
Settle(st, subscription, invoice) ==
    IF invoice.total < 0
    THEN CustomersUpdate(
             Call(EmitEvent(st, "debug", "credited"), "customers.retrieve",
                  subscription.customer),
             subscription.customer,
             [balance |-> st.customers[FindIdx(st.customers, LAMBDA c :
                                           c.id = subscription.customer)].balance
                          - invoice.total])
    ELSE IF invoice.status = "open"
    THEN Call(EmitEvent(st, "debug", "charged"), "invoices.pay", subscription.id)
    ELSE st

\* if (chargeType === 'immediate') ... else if (chargeType === 'sendInvoice') ...
Charge(st, cfg, subscription, options, invoice) ==
    IF ChargeTypeOr(options) = "immediate"
    THEN Settle(Call(InvoicesCreate(st, subscription,
                         [auto_advance |-> TRUE,
                          collection_method |-> "charge_automatically"]),
                     "invoices.finalizeInvoice", subscription.id),
                subscription, invoice)
    ELSE IF ChargeTypeOr(options) = "sendInvoice"
    THEN EmitEvent(Call(InvoicesCreate(st, subscription,
                            [auto_advance |-> TRUE,
                             collection_method |-> "send_invoice",
                             days_until_due |-> DueDays(options, cfg)]),
                        "invoices.finalizeInvoice", subscription.id),
                   "debug", "invoice sent")
    ELSE st

\* newItems of a tier change: the main item on the new price, the others kept
TierItems(subscription, newTierPrice) ==
    [i \in 1..Len(subscription.items) |->
        IF i = MainItemIdx(subscription)
        THEN ItemParam(subscription.items[i].id,
                       PriceOf(newTierPrice, subscription.metadata.isAnnual = "true"),
                       1, FALSE)
        ELSE ItemParam(subscription.items[i].id, 0, 0, FALSE)]

\* The debug event and the update of a tier change, with a lifecycle event
\* emitted as well.
UpdateTier_Announced(st, subscription, newTierPrice, options) ==
    EmitEvent(
        SubscriptionsUpdate(EmitEvent(st, "debug", "updating tier"), subscription.id,
            [proration_behavior |-> Proration(options),
             items |-> ApplyItems(st.prices, subscription.items,
                                  TierItems(subscription, newTierPrice)),
             metadata |-> [subscription.metadata EXCEPT !.tierId = newTierPrice.id]]),
        "subscriptionTierChange", newTierPrice.id)

\* The debug event and the update of a tier change
UpdateTier(st, subscription, newTierPrice, options) ==
    SubscriptionsUpdate(EmitEvent(st, "debug", "updating tier"), subscription.id,
        [proration_behavior |-> Proration(options),
         items |-> ApplyItems(st.prices, subscription.items,
                              TierItems(subscription, newTierPrice)),
         metadata |-> [subscription.metadata EXCEPT !.tierId = newTierPrice.id]])

ChangeTierPrice(st, cfg, subscription, newTierPrice, options, invoice) ==
    IF newTierPrice.priceCents = 0
    THEN Throw(st, "Tiers with a price of 0 cannot be subscribed to.")
    ELSE IF ~newTierPrice.isActive THEN Throw(st, "Tier is not active.")
    ELSE IF newTierPrice.type # SubscriptionType(subscription)
    THEN Throw(st, "Subscriptions cannot have tiers for the other type.")
    ELSE IF MainItemIdx(subscription) = 0
    THEN Throw(st, "Main tier not found for subscription (#1).")
    ELSE Succeed(Charge(UpdateTier(st, subscription, newTierPrice, options), cfg,
                        subscription, options, invoice))

ChangeTierTo(st, cfg, subscription, stripeTiers, newTierId, options, invoice) ==
    IF stripeTiers = <<>> THEN Throw(st, "Tiers not found.")
    ELSE IF ~Some(stripeTiers, LAMBDA t : t.id = newTierId)
    THEN Throw(st, "Tier not found (#5).")
    ELSE ChangeTierPrice(st, cfg, subscription, EntryOf(stripeTiers, newTierId),
                         options, invoice)

ChangeTierOf(st, cfg, subscription, newTierId, options, invoice) ==
    IF subscription.metadata.userId = ""
    THEN Throw(st, "Missing user ID in subscription.")
    ELSE IF subscription.metadata.isUserSub = "" /\ subscription.metadata.guildId = ""
    THEN Throw(st, "Missing guild ID in subscription (#1).")
    ELSE IF subscription.metadata.tierId = newTierId THEN Succeed(st)
    ELSE ChangeTierTo(ListCatalog(st), cfg, subscription, getStripeTiers(st, cfg),
                      newTierId, options, invoice)

changeSubscriptionTier(st, cfg, subscriptionId, newTierId, options, invoice) ==
    IF SubscriptionIdx(st, subscriptionId) = 0
    THEN Throw(Call(st, "subscriptions.retrieve", subscriptionId),
               "Subscription not found (#2).")
    ELSE ChangeTierOf(Call(st, "subscriptions.retrieve", subscriptionId), cfg,
                      st.subscriptions[SubscriptionIdx(st, subscriptionId)],
                      newTierId, options, invoice)

\* currentAddonItems: the items that are not the main tier
CurrentAddonItems(subscription) ==
    SelectSeq(subscription.items, LAMBDA it : it.iid # subscription.metadata.tierId)

\* isUnchanged
IsUnchanged(subscription, newAddons) ==
    /\ Len(CurrentAddonItems(subscription)) = Len(newAddons)
    /\ Every(newAddons, LAMBDA n :
           Some(CurrentAddonItems(subscription), LAMBDA it :
               it.iid = n.id
               /\ CurrentAddonItems(subscription)[
                      FindIdx(CurrentAddonItems(subscription),
                              LAMBDA x : x.iid = n.id)].quantity = n.quantity))

\* Every requested add-on pushed as a new item on the monthly price
AddonParam_NewMonthly(subscription, stripeAddons, addon) ==
    ItemParam(0, EntryOf(stripeAddons, addon.id).monthlyPriceId, addon.quantity, FALSE)

\* The entry pushed for one requested add-on: the existing item with the new
\* quantity, or a new item on the add-on's price.
AddonParam(subscription, stripeAddons, addon) ==
    IF Some(subscription.items, LAMBDA it : it.iid = addon.id)
    THEN ItemParam(
             subscription.items[FindIdx(subscription.items,
                                        LAMBDA it : it.iid = addon.id)].id,
             subscription.items[FindIdx(subscription.items,
                                        LAMBDA it : it.iid = addon.id)].price,
             addon.quantity, FALSE)
    ELSE ItemParam(0, PriceOf(EntryOf(stripeAddons, addon.id),
                              subscription.metadata.isAnnual = "true"),
                   addon.quantity, FALSE)

\* newItems before the deleted items are pushed
RequestedItems(subscription, stripeAddons, newAddons) ==
    <<ItemParam(subscription.items[MainItemIdx(subscription)].id,
                subscription.items[MainItemIdx(subscription)].price, 1, FALSE)>>
    \o [i \in 1..Len(newAddons) |-> AddonParam(subscription, stripeAddons, newAddons[i])]

\* deletedAddonItems, each pushed as { id, deleted: true }
DeletedItems(subscription, requested) ==
    [i \in 1..Len(SelectSeq(CurrentAddonItems(subscription), LAMBDA it :
                      ~Some(requested, LAMBDA r : r.id = it.id))) |->
        ItemParam(SelectSeq(CurrentAddonItems(subscription), LAMBDA it :
                      ~Some(requested, LAMBDA r : r.id = it.id))[i].id,
                  0, 0, TRUE)]

AddonItems(subscription, stripeAddons, newAddons) ==
    RequestedItems(subscription, stripeAddons, newAddons)
    \o DeletedItems(subscription, RequestedItems(subscription, stripeAddons, newAddons))

\* The debug event and the update of an add-on change
UpdateAddons(st, subscription, stripeAddons, newAddons, options) ==
    SubscriptionsUpdate(EmitEvent(st, "debug", "updating addons"), subscription.id,
        [proration_behavior |-> Proration(options),
         items |-> ApplyItems(st.prices, subscription.items,
                              AddonItems(subscription, stripeAddons, newAddons))])

\* newSelectedAddons
SelectedAddons(stripeAddons, newAddons) ==
    SelectSeq(stripeAddons, LAMBDA a : Some(newAddons, LAMBDA n : n.id = a.id))

ChangeAddonsTo(st, cfg, subscription, stripeAddons, newAddons, options, invoice) ==
    IF stripeAddons = <<>> THEN Throw(st, "Addons not found.")
    ELSE IF MainItemIdx(subscription) = 0
    THEN Throw(st, "Main tier not found for subscription (#2).")
    ELSE IF Len(SelectedAddons(stripeAddons, newAddons)) # Len(newAddons)
    THEN Throw(st, "Invalid addon IDs provided.")
    ELSE IF Some(SelectedAddons(stripeAddons, newAddons), LAMBDA a : a.priceCents = 0)
    THEN Throw(st, "Addons with a price of 0 cannot be subscribed to.")
    ELSE IF Some(SelectedAddons(stripeAddons, newAddons), LAMBDA a : ~a.isActive)
    THEN Throw(st, "Addons must be active to be subscribed to.")
    ELSE IF Some(SelectedAddons(stripeAddons, newAddons),
                 LAMBDA a : a.type # SubscriptionType(subscription))
    THEN Throw(st, "Subscriptions cannot have addons for the other type.")
    ELSE IF IsUnchanged(subscription, newAddons) THEN Succeed(st)
    ELSE Succeed(Charge(UpdateAddons(st, subscription, stripeAddons, newAddons,
                                     options),
                        cfg, subscription, options, invoice))

ChangeAddonsOf(st, cfg, subscription, newAddons, options, invoice) ==
    IF subscription.metadata.userId = ""
    THEN Throw(st, "Missing user ID in subscription.")
    ELSE IF subscription.metadata.isUserSub = "" /\ subscription.metadata.guildId = ""
    THEN Throw(st, "Missing guild ID in subscription (#2).")
    ELSE ChangeAddonsTo(ListCatalog(st), cfg, subscription, getStripeAddons(st, cfg),
                        newAddons, options, invoice)

changeSubscriptionAddons(st, cfg, subscriptionId, newAddons, options, invoice) ==
    IF SubscriptionIdx(st, subscriptionId) = 0
    THEN Throw(Call(st, "subscriptions.retrieve", subscriptionId),
               "Subscription not found (#3).")
    ELSE ChangeAddonsOf(Call(st, "subscriptions.retrieve", subscriptionId), cfg,
                        st.subscriptions[SubscriptionIdx(st, subscriptionId)],
                        newAddons, options, invoice)

---------------------------------------------------------------------------
(* cancelSubscription, refundCharge, changeSubscriptionGuild and           *)
(* changeSubscriptionUser                                                  *)

cancelSubscription(st, subscriptionId, immediately) ==
    IF SubscriptionIdx(st, subscriptionId) = 0
    THEN Throw(Call(st, "subscriptions.retrieve", subscriptionId),
               "Subscription not found (#1).")
    ELSE IF immediately
    THEN Succeed(SubscriptionsCancel(Call(st, "subscriptions.retrieve", subscriptionId),
                                     subscriptionId, [invoice_now |-> TRUE]))
    ELSE Succeed(SubscriptionsUpdate(Call(st, "subscriptions.retrieve", subscriptionId),
                                     subscriptionId, [cancel_at_period_end |-> TRUE]))

\* charge: the charge the platform holds under the id (<<>> if none)
refundCharge(st, charge, isFraud) ==
    IF charge = <<>>
    THEN Throw(Call(st, "charges.retrieve", 0), "Charge not found.")
    ELSE Succeed(Call(Call(st, "charges.retrieve", charge[1]), "refunds.create",
                      charge[1]))

\* The data of the two events a transfer emits
TransferData(cfg, subscription, userId, guildId, addons) ==
    [type |-> SubscriptionType(subscription),
     tier |-> cfg.premiumTiers[TierIdx(cfg, subscription.metadata.tierId)],
     isAnnual |-> subscription.metadata.isAnnual = "true",
     addons |-> addons, userId |-> userId, guildId |-> guildId]

\* if (emitEvents) {...}: subscriptionDelete for the old subject, then
\* subscriptionCreate for the new one
EmitTransfer(st, cfg, subscription, oldUserId, oldGuildId, newUserId, newGuildId) ==
    IF TierIdx(cfg, subscription.metadata.tierId) = 0
    THEN Throw(st, "Tier not found (#6).")
    ELSE EmitEvent(
             EmitEvent(
                 ListForItems(Call(st, "invoices.retrieve", subscription.latest_invoice),
                              subscription.items),
                 "subscriptionDelete",
                 TransferData(cfg, subscription, oldUserId, oldGuildId,
                              AddonsOfItems(st, cfg, subscription.items))),
             "subscriptionCreate",
             TransferData(cfg, subscription, newUserId, newGuildId,
                          AddonsOfItems(st, cfg, subscription.items)))

ChangeGuildTo(st, cfg, subscription, newGuildId, emitEvents) ==
    IF HasGuildSubscription(st, newGuildId)
    THEN Throw(getGuildSubscription(st), "The new guild already has a subscription.")
    ELSE IF emitEvents
    THEN Succeed(EmitTransfer(
             SubscriptionsUpdate(getGuildSubscription(st), subscription.id,
                 [metadata |-> [subscription.metadata EXCEPT !.guildId = newGuildId]]),
             cfg, subscription, subscription.metadata.userId,
             subscription.metadata.guildId, subscription.metadata.userId, newGuildId))
    ELSE Succeed(
             SubscriptionsUpdate(getGuildSubscription(st), subscription.id,
                 [metadata |-> [subscription.metadata EXCEPT !.guildId = newGuildId]]))

ChangeGuildOf(st, cfg, subscription, newGuildId, emitEvents) ==
    IF subscription.metadata.userId = ""
    THEN Throw(st, "Missing user ID in subscription.")
    ELSE IF subscription.metadata.isUserSub = "true"
    THEN Throw(st, "Cannot change guild for user subscriptions.")
    ELSE IF subscription.metadata.guildId = ""
    THEN Throw(st, "Missing guild ID in subscription (#3).")
    ELSE IF subscription.metadata.guildId = newGuildId THEN Succeed(st)
    ELSE ChangeGuildTo(st, cfg, subscription, newGuildId, emitEvents)

changeSubscriptionGuild(st, cfg, subscriptionId, newGuildId, emitEvents) ==
    IF SubscriptionIdx(st, subscriptionId) = 0
    THEN Throw(Call(st, "subscriptions.retrieve", subscriptionId),
               "Subscription not found (#4).")
    ELSE ChangeGuildOf(Call(st, "subscriptions.retrieve", subscriptionId), cfg,
                       st.subscriptions[SubscriptionIdx(st, subscriptionId)],
                       newGuildId, emitEvents)

ChangeUserTo(st, cfg, subscription, newUserId, emitEvents) ==
    IF HasUserSubscription(st, subscription.customer)
    THEN Throw(getUserSubscription(st, subscription.customer),
               "The new user already has a user subscription.")
    ELSE IF emitEvents
    THEN Succeed(EmitTransfer(
             SubscriptionsUpdate(getUserSubscription(st, subscription.customer),
                 subscription.id,
                 [metadata |-> [subscription.metadata EXCEPT !.userId = newUserId]]),
             cfg, subscription, subscription.metadata.userId, "", newUserId, ""))
    ELSE Succeed(
             SubscriptionsUpdate(getUserSubscription(st, subscription.customer),
                 subscription.id,
                 [metadata |-> [subscription.metadata EXCEPT !.userId = newUserId]]))

ChangeUserOf(st, cfg, subscription, newUserId, emitEvents) ==
    IF subscription.metadata.isUserSub # "true"
    THEN Throw(st, "Cannot change user for guild subscriptions.")
    ELSE IF subscription.metadata.userId = ""
    THEN Throw(st, "Missing user ID in subscription (#5).")
    ELSE IF subscription.metadata.userId = newUserId THEN Succeed(st)
    ELSE ChangeUserTo(st, cfg, subscription, newUserId, emitEvents)

changeSubscriptionUser(st, cfg, subscriptionId, newUserId, emitEvents) ==
    IF SubscriptionIdx(st, subscriptionId) = 0
    THEN Throw(Call(st, "subscriptions.retrieve", subscriptionId),
               "Subscription not found (#2).")
    ELSE ChangeUserOf(Call(st, "subscriptions.retrieve", subscriptionId), cfg,
                      st.subscriptions[SubscriptionIdx(st, subscriptionId)],
                      newUserId, emitEvents)

---------------------------------------------------------------------------
(* The inputs of the mutation operations *)

\* Declared catalogs: user and guild tiers, with add-ons of both types, with
\* two user add-ons, and with no add-on at all.
MutTiers ==
    <<[id |-> "t1", type |-> "user", name |-> "Gold", priceCents |-> 1,
       yearlyMultiplier |-> 0, currency |-> "", isActive |-> TRUE],
      [id |-> "t2", type |-> "guild", name |-> "Silver", priceCents |-> 2,
       yearlyMultiplier |-> 0, currency |-> "", isActive |-> TRUE],
      [id |-> "t3", type |-> "user", name |-> "Platinum", priceCents |-> 3,
       yearlyMultiplier |-> 0, currency |-> "", isActive |-> TRUE]>>

MutAddon(id, type, name) ==
    [id |-> id, type |-> type, name |-> name, priceCents |-> 1,
     yearlyMultiplier |-> 0, currency |-> "", isActive |-> TRUE]

\* The catalog without add-ons is the one configured with defaultDueDays.
MutConfigs ==
    {[premiumTiers |-> MutTiers, addons |-> addons, stripeWebhookUrl |-> "hook",
      stripeWebhookSecret |-> 0, invoiceAllOnDisputeLoss |-> <<>>,
      defaultDueDays |-> IF addons = <<>> THEN 5 ELSE 0] :
        addons \in {<<MutAddon("a1", "user", "Slots"), MutAddon("a2", "guild", "Seats")>>,
                    <<MutAddon("a1", "user", "Slots"), MutAddon("a3", "user", "Boost")>>,
                    <<>>}}

\* SubscriptionCreateInputData
CheckoutData ==
    {[tierId |-> t, guildId |-> g, addons |-> a, isAnnual |-> y,
      customer |-> [userId |-> "u1", email |-> "e1"]] :
        t \in {"t1", "t2", "t9"}, g \in {"", "g1"},
        a \in {<<>>, <<[id |-> "a1", quantity |-> 1]>>}, y \in {FALSE}}
    \cup {[tierId |-> "t1", guildId |-> "", addons |-> <<>>, isAnnual |-> TRUE,
           customer |-> [userId |-> "u2", email |-> "e2"]]}

\* The ids an operation is called with: the subscriptions there are, and one
\* that is none.
SubscriptionIds == {subscriptions[i].id : i \in 1..Len(subscriptions)} \cup {0}

\* ChargeOptions.chargeType and the invoice the platform finalizes for it
Charges ==
    {[chargeType |-> c, dueDays |-> 0, invoice |-> [total |-> t, status |-> "paid"]] :
        c \in {"immediate", ""}, t \in {-1, 0}}
    \cup {[chargeType |-> c, dueDays |-> 0, invoice |-> [total |-> t, status |-> "open"]] :
             c \in {"immediate", ""}, t \in {0, 1}}
    \cup {[chargeType |-> "endOfPeriod", dueDays |-> 0,
            invoice |-> [total |-> 0, status |-> "draft"]]}
    \cup {[chargeType |-> "sendInvoice", dueDays |-> d,
            invoice |-> [total |-> 1, status |-> "open"]] : d \in {0, 3}}

\* An operation on a subscription that is none is run with one input.
ChargesFor(id) ==
    IF id = 0 THEN {[chargeType |-> "immediate", dueDays |-> 0,
                     invoice |-> [total |-> 1, status |-> "open"]]}
    ELSE Charges

NewAddonSets ==
    {<<>>, <<[id |-> "a1", quantity |-> 1]>>, <<[id |-> "a1", quantity |-> 2]>>,
     <<[id |-> "a2", quantity |-> 1]>>, <<[id |-> "a9", quantity |-> 1]>>,
     <<[id |-> "a3", quantity |-> 1]>>,
     <<[id |-> "a3", quantity |-> 1], [id |-> "a1", quantity |-> 2]>>}

\* The subscription an operation is called on, as it was before (<<>> if none)
Before(id) == SelectSeq(subscriptions, LAMBDA s : s.id = id)

---------------------------------------------------------------------------
(* Actions: the mutation operations on an account whose catalog is synced *)

MutState ==
    [products |-> products, prices |-> prices, customers |-> customers,
     subscriptions |-> subscriptions, sessions |-> sessions, nextId |-> nextId,
     calls |-> <<>>, emitted |-> <<>>, result |-> Pending]

\* The state an operation leaves, and the operation recorded as the last one
Ran(st, call) ==
    /\ runs < MaxOps
    /\ customers' = st.customers
    /\ subscriptions' = st.subscriptions
    /\ sessions' = st.sessions
    /\ nextId' = st.nextId
    /\ calls' = st.calls
    /\ emitted' = st.emitted
    /\ result' = st.result
    /\ op' = call
    /\ runs' = runs + 1
    /\ UNCHANGED <<config, webhookSecret, products, prices, endpoints, synced,
                   running>>

CreateCheckoutSession(data) ==
    Ran(createCheckoutSession(MutState, config, data),
        [name |-> "createCheckoutSession", data |-> data])

\* The customer pays on the hosted page and the platform creates the subscription.
CompleteCheckout(session) ==
    Ran(CompleteSession(MutState, session),
        [name |-> "checkout.completed", session |-> session.id])

ChangeSubscriptionTier(id, newTierId, charge) ==
    Ran(changeSubscriptionTier(MutState, config, id, newTierId,
                               [chargeType |-> charge.chargeType,
                                dueDays |-> charge.dueDays],
                               charge.invoice),
        [name |-> "changeSubscriptionTier", before |-> Before(id),
         newTierId |-> newTierId, charge |-> charge])

ChangeSubscriptionAddons(id, newAddons, charge) ==
    Ran(changeSubscriptionAddons(MutState, config, id, newAddons,
                                 [chargeType |-> charge.chargeType,
                                  dueDays |-> charge.dueDays],
                                 charge.invoice),
        [name |-> "changeSubscriptionAddons", before |-> Before(id),
         newAddons |-> newAddons, charge |-> charge])

CancelSubscription(id, immediately) ==
    Ran(cancelSubscription(MutState, id, immediately),
        [name |-> "cancelSubscription", before |-> Before(id),
         immediately |-> immediately])

RefundCharge(charge, isFraud) ==
    Ran(refundCharge(MutState, charge, isFraud),
        [name |-> "refundCharge", charge |-> charge, isFraud |-> isFraud])

ChangeSubscriptionGuild(id, newGuildId, emitEvents) ==
    Ran(changeSubscriptionGuild(MutState, config, id, newGuildId, emitEvents),
        [name |-> "changeSubscriptionGuild", before |-> Before(id),
         newGuildId |-> newGuildId, emitEvents |-> emitEvents])

ChangeSubscriptionUser(id, newUserId, emitEvents) ==
    Ran(changeSubscriptionUser(MutState, config, id, newUserId, emitEvents),
        [name |-> "changeSubscriptionUser", before |-> Before(id),
         newUserId |-> newUserId, emitEvents |-> emitEvents])

\* A manager after its first syncAll, on an account with no customer yet.
InitMut ==
    \E cfg \in MutConfigs :
        \E st \in {syncAll(NewAccount, cfg)} :
            /\ config = cfg
            /\ webhookSecret = st.secret
            /\ products = st.products
            /\ prices = st.prices
            /\ endpoints = st.endpoints
            /\ customers = <<>>
            /\ subscriptions = <<>>
            /\ sessions = <<>>
            /\ nextId = st.nextId
            /\ op = [name |-> "syncAll", again |-> FALSE, failing |-> {}]
            /\ calls = st.calls
            /\ emitted = st.emitted
            /\ result = Returned
            /\ runs = 0
            /\ synced = Catalog(cfg)
            /\ running = <<>>

NextMut ==
    \/ \E data \in CheckoutData : CreateCheckoutSession(data)
    \/ \E i \in 1..Len(sessions) : CompleteCheckout(sessions[i])
    \/ \E id \in SubscriptionIds, t \in {"t1", "t2", "t3"} :
           \E charge \in ChargesFor(id) : ChangeSubscriptionTier(id, t, charge)
    \/ \E id \in SubscriptionIds, a \in NewAddonSets :
           \E charge \in ChargesFor(id) : ChangeSubscriptionAddons(id, a, charge)
    \/ \E id \in SubscriptionIds, immediately \in BOOLEAN :
           CancelSubscription(id, immediately)
    \/ \E charge \in {<<>>, <<7>>}, isFraud \in BOOLEAN : RefundCharge(charge, isFraud)
    \/ \E id \in SubscriptionIds, g \in {"g1", "g2"}, emitEvents \in BOOLEAN :
           ChangeSubscriptionGuild(id, g, emitEvents)
    \/ \E id \in SubscriptionIds, u \in {"u1", "u2"}, emitEvents \in BOOLEAN :
           ChangeSubscriptionUser(id, u, emitEvents)

SpecMut == InitMut /\ [][NextMut]_vars

---------------------------------------------------------------------------
(* Properties of the mutation operations *)

RemoteReads ==
    {"products.list", "prices.list", "customers.list", "customers.retrieve",
     "subscriptions.list", "subscriptions.retrieve", "invoices.retrieve",
     "charges.retrieve"}

\* The remote calls of the last operation that are not reads
RemoteWrites == SelectSeq(calls, LAMBDA c : c.op \notin RemoteReads)

LifecycleEvents ==
    {"subscriptionCreate", "subscriptionRenew", "subscriptionCancel",
     "subscriptionDelete", "subscriptionUpdate", "subscriptionTierChange",
     "subscriptionAddonsUpdate"}

MutationOperations ==
    {"createCheckoutSession", "changeSubscriptionTier", "changeSubscriptionAddons",
     "cancelSubscription", "refundCharge", "changeSubscriptionGuild",
     "changeSubscriptionUser"}

\* The names of the lifecycle events the last operation emitted, in order
LifecycleEmitted ==
    [i \in 1..Len(SelectSeq(emitted, LAMBDA e : e.name \in LifecycleEvents)) |->
        SelectSeq(emitted, LAMBDA e : e.name \in LifecycleEvents)[i].name]

\* The add-on items of a subscription as a set of (add-on id, quantity)
HeldAddons(subscription) ==
    {<<it.iid, it.quantity>> : it \in
        {subscription.items[i] : i \in
            {j \in 1..Len(subscription.items) :
                subscription.items[j].iid # subscription.metadata.tierId}}}

\* The last operation asked for what its subscription already had.
NoOpRequest ==
    /\ op.name \in {"changeSubscriptionTier", "changeSubscriptionAddons"}
    /\ op.before # <<>>
    /\ op.name = "changeSubscriptionTier" =>
           op.newTierId = op.before[1].metadata.tierId
    /\ op.name = "changeSubscriptionAddons" =>
           /\ Len(op.newAddons) = Cardinality(HeldAddons(op.before[1]))
           /\ {<<op.newAddons[i].id, op.newAddons[i].quantity>> :
                  i \in 1..Len(op.newAddons)} = HeldAddons(op.before[1])

\* C9: a changeSubscriptionTier to the subscription's current tier and a
\* changeSubscriptionAddons to its current add-ons at the same quantities (none
\* included) return success and issue no remote write, whatever the catalog.
C9_NoOpMutation ==
    NoOpRequest => /\ result = [kind |-> "return", status |-> 0, message |-> "true"]
                   /\ RemoteWrites = <<>>

InvariantViolations ==
    {"Tier not found (#4).", "Tier not found (#5).", "Tiers not found.",
     "Tiers with a price of 0 cannot be subscribed to.", "Tier is not active.",
     "User subscriptions cannot have guild addons.",
     "Guild subscriptions cannot have user addons.",
     "User subscriptions cannot be created for guilds.",
     "Guild subscriptions must be created for guilds.",
     "User already has a user subscription.",
     "Guild already has a guild subscription.",
     "Addon not found.", "Addons not found.", "Invalid addon IDs provided.",
     "Addons with a price of 0 cannot be subscribed to.",
     "Addons must be active to be subscribed to.",
     "Subscriptions cannot have tiers for the other type.",
     "Subscriptions cannot have addons for the other type."}

\* C11: a createCheckoutSession, changeSubscriptionTier or
\* changeSubscriptionAddons that throws an invariant violation has issued no
\* remote write.
C11_FailsBeforeWrite ==
    (/\ op.name \in {"createCheckoutSession", "changeSubscriptionTier",
                     "changeSubscriptionAddons"}
     /\ result.kind = "throw"
     /\ result.message \in InvariantViolations)
        => RemoteWrites = <<>>

\* The subscriptions that are not canceled
ActiveSubscriptions ==
    {subscriptions[i] : i \in {j \in 1..Len(subscriptions) :
                                  subscriptions[j].status # "canceled"}}

\* C12: no customer holds two active user subscriptions and no guild id has
\* two active guild subscriptions.
C12_OneActivePerSubject ==
    \A a, b \in ActiveSubscriptions :
        a.id # b.id =>
            /\ ~(/\ a.metadata.isUserSub = "true" /\ b.metadata.isUserSub = "true"
                 /\ a.customer = b.customer)
            /\ ~(/\ a.metadata.guildId # "" /\ a.metadata.guildId = b.metadata.guildId)

\* The last createCheckoutSession was rejected for a type mismatch.
MismatchRejected ==
    /\ result.kind = "throw"
    /\ result.message \in {"User subscriptions cannot have guild addons.",
                           "Guild subscriptions cannot have user addons."}

\* Some add-on selected in the request is declared with another subject type
\* than the requested tier.
SelectedMismatch ==
    \E i \in 1..Len(op.data.addons), j \in 1..Len(config.addons) :
        /\ config.addons[j].id = op.data.addons[i].id
        /\ config.addons[j].type #
               config.premiumTiers[TierIdx(config, op.data.tierId)].type

\* C13: createCheckoutSession rejects with a type mismatch exactly when a
\* selected add-on has a subject type other than the tier's, whatever other
\* add-ons the catalog holds.
C13_TypeMismatchExact ==
    (op.name = "createCheckoutSession" /\ TierIdx(config, op.data.tierId) # 0)
        => (MismatchRejected <=> SelectedMismatch)

---------------------------------------------------------------------------
(* Further properties of the catalog synchronizer *)

\* The remote products tagged with a declared entry's id and kind
ProductsOf(which, d) ==
    {i \in 1..Len(products) : products[i].iid = d.id /\ products[i].which = which}

\* The last run created the one remote product of the declared entry d: it had
\* no remote counterpart before.
CreatedInRun(which, d) ==
    /\ op.name = "syncAll"
    /\ Cardinality(ProductsOf(which, d)) = 1
    /\ \A i \in ProductsOf(which, d) :
           Some(calls, LAMBDA c : c.op = "products.create" /\ c.id = products[i].id)

\* The listing resolver gives the declared entry back with its id, type, price
\* and active flag.
RoundTrips(which, d, entries) ==
    Some(entries, LAMBDA e :
        /\ e.id = d.id
        /\ e.type = d.type
        /\ e.priceCents = d.priceCents
        /\ e.isActive = d.isActive)

\* C14: a declared tier or add-on with a price > 0, active or not, that the run
\* created is resolved by getStripeTiers / getStripeAddons to the declared id,
\* type, price and active flag.
C14_RoundTrip ==
    /\ Every(config.premiumTiers, LAMBDA d :
           (d.priceCents > 0 /\ CreatedInRun("tier", d)) =>
               RoundTrips("tier", d,
                   getStripeTiersInternal(config.premiumTiers, FALSE, products, prices)))
    /\ Every(config.addons, LAMBDA d :
           (d.priceCents > 0 /\ CreatedInRun("addon", d)) =>
               RoundTrips("addon", d,
                   getStripeAddonsInternal(config.addons, FALSE, products, prices)))

\* The prices.create calls of the last run for a product and an interval, as
\* the prices they created
PricesCreatedFor(pid, interval) ==
    {i \in 1..Len(prices) :
        /\ prices[i].product = pid
        /\ prices[i].interval = interval
        /\ Some(calls, LAMBDA c : c.op = "prices.create" /\ c.id = prices[i].id)}

\* The creation of one declared entry as C15 states it, for the product the
\* run created for it
CreatedAsDeclared(which, d, product) ==
    /\ Cardinality({i \in 1..Len(calls) :
           calls[i].op = "products.create" /\ calls[i].id = product.id}) = 1
    /\ product.type = d.type /\ product.iid = d.id /\ product.which = which
    /\ Cardinality(PricesCreatedFor(product.id, "month")) = 1
    /\ Cardinality(PricesCreatedFor(product.id, "year")) = 1
    /\ Cardinality({i \in 1..Len(calls) : calls[i].op = "prices.create"
           /\ \E j \in 1..Len(prices) : prices[j].id = calls[i].id
                                        /\ prices[j].product = product.id}) = 2
    /\ \A i \in PricesCreatedFor(product.id, "month") :
           /\ prices[i].unit_amount = d.priceCents
           /\ product.default_price = prices[i].id
           /\ Some(calls, LAMBDA c : /\ c.op = "products.update"
                                     /\ c.id = product.id
                                     /\ c.patch = [default_price |-> prices[i].id])
    /\ \A i \in PricesCreatedFor(product.id, "year") :
           prices[i].unit_amount =
               d.priceCents * (IF d.yearlyMultiplier >= 1 THEN d.yearlyMultiplier
                               ELSE 10)

\* C15: for a declared entry with a price > 0 and no remote counterpart, the
\* run creates one product tagged with the entry's type, id and kind, one
\* monthly price at the declared price, one yearly price at the declared price
\* times the yearly multiplier (the declared one if >= 1, else 10), and makes
\* the monthly price the product's default price.
C15_CreatesProductAndPrices ==
    /\ Every(config.premiumTiers, LAMBDA d :
           (d.priceCents > 0 /\ CreatedInRun("tier", d)) =>
               \A i \in ProductsOf("tier", d) :
                   CreatedAsDeclared("tier", d, products[i]))
    /\ Every(config.addons, LAMBDA d :
           (d.priceCents > 0 /\ CreatedInRun("addon", d)) =>
               \A i \in ProductsOf("addon", d) :
                   CreatedAsDeclared("addon", d, products[i]))

\* A run that created a tier with no declared multiplier and an add-on with a
\* declared multiplier of 2
C15_Witness ==
    /\ Some(config.premiumTiers, LAMBDA d :
           d.priceCents > 0 /\ d.yearlyMultiplier < 1 /\ CreatedInRun("tier", d))
    /\ Some(config.addons, LAMBDA d :
           d.priceCents > 0 /\ d.yearlyMultiplier > 1 /\ CreatedInRun("addon", d))

\* No remote product and no remote price is tagged with the entry's id and kind.
NoRemote(which, d, allProducts, allPrices) ==
    /\ ~Some(allProducts, LAMBDA p : p.iid = d.id /\ p.which = which)
    /\ ~Some(allPrices, LAMBDA pr : pr.iid = d.id /\ pr.which = which)

\* C16: a syncAll run leaves a declared tier or add-on that is new (nothing
\* remote is tagged with it) and has a price <= 0 without any remote product or
\* price: nothing is created or updated for it.
C16_NonPositivePriceRejected ==
    [][op'.name = "syncAll" =>
          /\ Every(config.premiumTiers, LAMBDA d :
                 (d.priceCents <= 0 /\ NoRemote("tier", d, products, prices))
                     => NoRemote("tier", d, products', prices'))
          /\ Every(config.addons, LAMBDA d :
                 (d.priceCents <= 0 /\ NoRemote("addon", d, products, prices))
                     => NoRemote("addon", d, products', prices'))]_vars

\* A run with a new declared tier of price 0 and an add-on it did create
C16_Witness ==
    /\ op.name = "syncAll"
    /\ Some(config.premiumTiers, LAMBDA d :
           d.priceCents <= 0 /\ NoRemote("tier", d, products, prices))
    /\ Some(calls, LAMBDA c : c.op = "products.create")

---------------------------------------------------------------------------
(* The synchronizer against a platform that rejects create calls *)

FaultyTier(id, name, priceCents) ==
    [id |-> id, type |-> "user", name |-> name, priceCents |-> priceCents,
     yearlyMultiplier |-> 0, currency |-> "", isActive |-> TRUE]

\* Two tiers and an add-on, each at one of two prices
FaultyConfigs ==
    {[premiumTiers |-> <<FaultyTier("t1", "Gold", p1), FaultyTier("t2", "Silver", p2)>>,
      addons |-> <<[id |-> "a1", type |-> "user", name |-> "Slots",
                    priceCents |-> p3, yearlyMultiplier |-> 2, currency |-> "",
                    isActive |-> TRUE]>>,
      stripeWebhookUrl |-> "hook", stripeWebhookSecret |-> 0,
      invoiceAllOnDisputeLoss |-> <<>>] :
        p1 \in {1, 2}, p2 \in {1, 2}, p3 \in {1}}

\* The create calls made for one declared entry that the platform rejects
Failures ==
    {{[op |-> name, iid |-> "t1", which |-> "tier"]} :
        name \in {"products.create", "prices.create"}}

\* syncAll while the platform rejects some create calls
SyncAllFailing(fail) == SyncAllWith(fail)

InitFaulty ==
    /\ config \in FaultyConfigs
    /\ webhookSecret = config.stripeWebhookSecret
    /\ products = <<>>
    /\ prices = <<>>
    /\ endpoints = <<>>
    /\ customers = <<>>
    /\ subscriptions = <<>>
    /\ sessions = <<>>
    /\ nextId = 1
    /\ op = [name |-> "constructor"]
    /\ calls = <<>>
    /\ emitted = <<>>
    /\ result = Returned
    /\ runs = 0
    /\ synced = NoCatalog
    /\ running = <<>>

NextFaulty ==
    \/ \E cfg \in FaultyConfigs : Construct(cfg)
    \/ SyncAll
    \/ \E fail \in Failures : SyncAllFailing(fail)

SpecSyncFaulty == InitFaulty /\ [][NextFaulty]_vars

\* The remote products and prices of the entries no rejected call is for,
\* without their ids
OthersView(allProducts, allPrices, fail) ==
    [products |->
         {[iid |-> p.iid, which |-> p.which, type |-> p.type, name |-> p.name,
           active |-> p.active] :
              p \in {allProducts[i] : i \in {j \in 1..Len(allProducts) :
                  \A f \in fail : ~(f.iid = allProducts[j].iid
                                    /\ f.which = allProducts[j].which)}}},
     prices |->
         {[iid |-> pr.iid, which |-> pr.which, interval |-> pr.interval,
           unit_amount |-> pr.unit_amount, active |-> pr.active] :
              pr \in {allPrices[i] : i \in {j \in 1..Len(allPrices) :
                  \A f \in fail : ~(f.iid = allPrices[j].iid
                                    /\ f.which = allPrices[j].which)}}}]

\* The run from the current state with no call rejected
Unfailing ==
    syncAll([products |-> products, prices |-> prices, endpoints |-> endpoints,
             secret |-> webhookSecret, calls |-> <<>>, emitted |-> <<>>,
             nextId |-> nextId, failing |-> {}, thrown |-> FALSE],
            config)

\* C17: a syncAll run during which the create calls for one declared entry are
\* rejected completes, and leaves every other declared tier and add-on as the
\* same run without the rejection would.
C17_FailureIsolated ==
    [][(op'.name = "syncAll" /\ op'.failing # {}) =>
          /\ result'.kind = "return"
          /\ OthersView(products', prices', op'.failing)
                 = OthersView(Unfailing.products, Unfailing.prices, op'.failing)]_vars

---------------------------------------------------------------------------
(* The synchronizer restarted against an account it has synced before *)

\* The declared catalog of the first deployment
SeedConfig ==
    [premiumTiers |-> <<[id |-> "t1", type |-> "user", name |-> "Gold",
                         priceCents |-> 1, yearlyMultiplier |-> 0,
                         currency |-> "", isActive |-> TRUE]>>,
     addons |-> <<[id |-> "a1", type |-> "user", name |-> "Slots",
                   priceCents |-> 1, yearlyMultiplier |-> 2, currency |-> "",
                   isActive |-> TRUE]>>,
     stripeWebhookUrl |-> "hook", stripeWebhookSecret |-> 0,
     invoiceAllOnDisputeLoss |-> <<>>]

\* Later declared catalogs: the tier is redeclared at either price, active or
\* not, or dropped; the add-on is kept or dropped.
SeededConfigs ==
    {[premiumTiers |-> ts, addons |-> as, stripeWebhookUrl |-> "hook",
      stripeWebhookSecret |-> 0, invoiceAllOnDisputeLoss |-> <<>>] :
        ts \in {<<>>} \cup
               {<<[id |-> "t1", type |-> "user", name |-> "Gold",
                   priceCents |-> pc, yearlyMultiplier |-> 0, currency |-> "",
                   isActive |-> a]>> : pc \in {1, 2}, a \in BOOLEAN},
        as \in {<<>>, SeedConfig.addons}}

\* The process starts with a declared catalog; the account is as the first
\* deployment's syncAll left it.
InitSeeded ==
    /\ config \in SeededConfigs
    /\ webhookSecret = config.stripeWebhookSecret
    /\ \E st \in {syncAll(NewAccount, SeedConfig)} :
           /\ products = st.products
           /\ prices = st.prices
           /\ endpoints = st.endpoints
           /\ nextId = st.nextId
    /\ customers = <<>>
    /\ subscriptions = <<>>
    /\ sessions = <<>>
    /\ op = [name |-> "constructor"]
    /\ calls = <<>>
    /\ emitted = <<>>
    /\ result = Returned
    /\ runs = 0
    /\ synced = NoCatalog
    /\ running = <<>>

NextSeeded ==
    \/ \E cfg \in SeededConfigs : Construct(cfg)
    \/ SyncAll

SpecSyncSeeded == InitSeeded /\ [][NextSeeded]_vars

DeclaredOf(which) == IF which = "tier" THEN config.premiumTiers ELSE config.addons

\* A remote product tagged as a tier or add-on, active, whose id the declared
\* catalog does not have.
IsExtra(p) ==
    /\ p.which \in {"tier", "addon"}
    /\ p.iid # "" /\ p.type # ""
    /\ p.active
    /\ ~Some(DeclaredOf(p.which), LAMBDA d : d.id = p.iid)

\* After the step the product is inactive and has no active price.
SoftDeleted(pid) ==
    /\ \A j \in 1..Len(products') : products'[j].id = pid => ~products'[j].active
    /\ \A j \in 1..Len(prices') : prices'[j].product = pid => ~prices'[j].active

\* An active product of an entry still declared active
KeptDeclared(p) ==
    /\ p.which \in {"tier", "addon"}
    /\ p.active
    /\ Some(DeclaredOf(p.which), LAMBDA d : d.id = p.iid /\ d.isActive)

StaysActive(pid) ==
    \A j \in 1..Len(products') : products'[j].id = pid => products'[j].active

\* C18: after a completed syncAll run, every remote tier or add-on product that
\* was active and is absent from the declared catalog is inactive and so are
\* its monthly and yearly prices; an active product of an entry still declared
\* active stays active.
C18_SoftDelete ==
    [][(op'.name = "syncAll" /\ result'.kind = "return") =>
          \A i \in 1..Len(products) :
              /\ IsExtra(products[i]) => SoftDeleted(products[i].id)
              /\ KeptDeclared(products[i]) => StaysActive(products[i].id)]_vars

---------------------------------------------------------------------------
(* Two syncAll runs with the same declared catalog, interleaved at the     *)
(* remote calls. The webhook secret is configured, so validateWebhook      *)
(* issues no call; every declared entry is active, so a run reads the      *)
(* account only in the two listings at the start of each pass.             *)

MaxConcurrent == 2

ConcurrentConfigs ==
    {[premiumTiers |-> <<[id |-> "t1", type |-> "user", name |-> "Gold",
                          priceCents |-> pc, yearlyMultiplier |-> 0,
                          currency |-> "", isActive |-> TRUE]>>,
      addons |-> as, stripeWebhookUrl |-> "hook", stripeWebhookSecret |-> -1,
      invoiceAllOnDisputeLoss |-> <<>>] :
        pc \in {1, 2}, as \in {<<>>, SeedConfig.addons}}

\* A run before its first call
Idle ==
    [pc |-> "tiers.products", allProducts |-> <<>>, pending |-> <<>>,
     snapNext |-> 0, idmap |-> {}]

\* The calls one pass issues, from its listing: the pass is computed against
\* the listing, with the ids its create calls return numbered from next.
Planned(which, declared, allProducts, allPrices, next) ==
    Reconcile([products |-> allProducts, prices |-> allPrices,
               endpoints |-> <<>>, secret |-> 0, calls |-> <<>>,
               emitted |-> <<>>, nextId |-> next, failing |-> {},
               thrown |-> FALSE],
              which, declared,
              ResolveListing(which, declared, TRUE, allProducts, allPrices),
              allProducts, allPrices).calls

\* The pass after this one, once its calls are issued
After(pc, pending) ==
    IF pending # <<>> THEN pc
    ELSE IF pc = "tiers.calls" THEN "addons.products" ELSE "done"

\* The id the platform returned for an object this run created, or the
\* listed id
Translate(run, id) ==
    IF id >= run.snapNext
    THEN (CHOOSE m \in run.idmap : m[1] = id)[2]
    ELSE id

TranslatePatch(run, patch) ==
    IF "default_price" \in DOMAIN patch
    THEN [default_price |-> Translate(run, patch.default_price)]
    ELSE patch

\* One planned call reaching the platform
Issue(st, run, c) ==
    CASE c.op = "products.create" ->
             ProductsCreate(st, c.patch.name, c.patch.type, c.patch.iid,
                            c.patch.which)
      [] c.op = "prices.create" ->
             PricesCreate(st, c.patch.unit_amount, c.patch.currency,
                          Translate(run, c.patch.product), c.patch.active,
                          c.patch.interval, c.patch.type, c.patch.iid,
                          c.patch.which)
      [] c.op = "products.update" ->
             ProductsUpdate(st, Translate(run, c.id), TranslatePatch(run, c.patch))
      [] c.op = "prices.update" ->
             PricesUpdate(st, Translate(run, c.id), c.patch)

\* The run after its next call returned the id next
Issued(run, next) ==
    [run EXCEPT
        !.idmap = IF Head(run.pending).op \in {"products.create", "prices.create"}
                  THEN @ \cup {<<Head(run.pending).id, next>>}
                  ELSE @,
        !.pending = Tail(@),
        !.pc = After(@, Tail(run.pending))]

\* internalGetAllProducts at the start of a pass
ListProducts(r) ==
    /\ running[r].pc \in {"tiers.products", "addons.products"}
    /\ running' = [running EXCEPT
                       ![r].allProducts = products,
                       ![r].pc = IF @ = "tiers.products" THEN "tiers.prices"
                                 ELSE "addons.prices"]
    /\ op' = [name |-> "syncAll.list", run |-> r]
    /\ calls' = <<>>
    /\ UNCHANGED <<config, webhookSecret, products, prices, endpoints, customers,
                   subscriptions, sessions, nextId, emitted, result, runs, synced>>

\* internalGetAllPrices, and the pass resolved from the two listings
ListPrices(r) ==
    /\ running[r].pc \in {"tiers.prices", "addons.prices"}
    /\ \E plan \in {IF running[r].pc = "tiers.prices"
                     THEN Planned("tier", config.premiumTiers,
                                  running[r].allProducts, prices, nextId)
                     ELSE Planned("addon", config.addons,
                                  running[r].allProducts, prices, nextId)} :
           running' = [running EXCEPT
                          ![r].allProducts = <<>>,
                          ![r].pending = plan,
                          ![r].snapNext = nextId,
                          ![r].idmap = {},
                          ![r].pc = IF @ = "tiers.prices"
                                    THEN After("tiers.calls", plan)
                                    ELSE After("addons.calls", plan)]
    /\ op' = [name |-> "syncAll.list", run |-> r]
    /\ calls' = <<>>
    /\ UNCHANGED <<config, webhookSecret, products, prices, endpoints, customers,
                   subscriptions, sessions, nextId, emitted, result, runs, synced>>

\* The next create or update call of a run
IssueCall(r) ==
    /\ running[r].pc \in {"tiers.calls", "addons.calls"}
    /\ \E st \in {Issue([products |-> products, prices |-> prices,
                         nextId |-> nextId, calls |-> <<>>, failing |-> {},
                         thrown |-> FALSE],
                        running[r], Head(running[r].pending))} :
           /\ products' = st.products
           /\ prices' = st.prices
           /\ nextId' = st.nextId
           /\ calls' = st.calls
    /\ running' = [running EXCEPT ![r] = Issued(running[r], nextId)]
    /\ op' = [name |-> "syncAll.call", run |-> r]
    /\ UNCHANGED <<config, webhookSecret, endpoints, customers, subscriptions,
                   sessions, emitted, result, runs, synced>>

\* Two runs are about to start against an account that is new, or that an
\* earlier deployment has synced.
InitConcurrent ==
    /\ config \in ConcurrentConfigs
    /\ webhookSecret = config.stripeWebhookSecret
    /\ \E st \in {NewAccount, syncAll(NewAccount, SeedConfig)} :
           /\ products = st.products
           /\ prices = st.prices
           /\ endpoints = st.endpoints
           /\ nextId = st.nextId
    /\ customers = <<>>
    /\ subscriptions = <<>>
    /\ sessions = <<>>
    /\ op = [name |-> "constructor"]
    /\ calls = <<>>
    /\ emitted = <<>>
    /\ result = Returned
    /\ runs = 0
    /\ synced = NoCatalog
    /\ running = [r \in 1..MaxConcurrent |-> Idle]

NextConcurrent ==
    \E r \in 1..MaxConcurrent :
        \/ ListProducts(r)
        \/ ListPrices(r)
        \/ IssueCall(r)

SpecSyncConcurrent == InitConcurrent /\ [][NextConcurrent]_vars

AllDone == \A r \in 1..MaxConcurrent : running[r].pc = "done"

\* The remote products tagged as this declared entry
TaggedAs(which, d) ==
    {i \in 1..Len(products) : products[i].which = which /\ products[i].iid = d.id}

\* What one run leaves for a declared entry: one product, with one active
\* monthly and one active yearly price
OneProduct(which, d) ==
    /\ Cardinality(TaggedAs(which, d)) = 1
    /\ \A i \in TaggedAs(which, d) :
           /\ Cardinality(ActivePricesOf(products[i].id, "month")) = 1
           /\ Cardinality(ActivePricesOf(products[i].id, "year")) = 1

\* C19: when two interleaved syncAll runs with the same declared catalog have
\* both completed, every declared entry has exactly one remote product, with
\* exactly one active monthly and one active yearly price.
C19_ConcurrentRunsConverge ==
    AllDone =>
        /\ Every(config.premiumTiers, LAMBDA d : OneProduct("tier", d))
        /\ Every(config.addons, LAMBDA d : OneProduct("addon", d))

---------------------------------------------------------------------------
(* StripeAddons.checkIfAddonChange on two item lists of a subscription *)

\* subscription.items.data before and after a change; <<>> is no items
ItemLists ==
    {<<>>} \cup {Snapshot("t1", q1, q2) : q1 \in 0..MaxQty, q2 \in 0..MaxQty}

\* checkIfAddonChange(newItems, oldItems): no listing is handed over, so the
\* catalog is listed first.
CheckIfAddonChange(newItems, oldItems) ==
    /\ \E st \in {ListCatalog([products |-> products, prices |-> prices,
                                subscriptions |-> subscriptions,
                                secret |-> webhookSecret, calls |-> <<>>,
                                emitted |-> <<>>, result |-> Pending])} :
           /\ calls' = st.calls
           /\ result' = [kind |-> "return", status |-> 0, message |-> "",
                         value |-> checkIfAddonChange(newItems, oldItems,
                                       getStripeAddons(st, config))]
    /\ op' = [name |-> "checkIfAddonChange", newItems |-> newItems,
              oldItems |-> oldItems]
    /\ emitted' = <<>>
    /\ UNCHANGED <<config, webhookSecret, products, prices, endpoints, customers,
                   subscriptions, sessions, nextId, runs, synced, running>>

NextAddonChange ==
    \E newItems \in ItemLists, oldItems \in ItemLists :
        CheckIfAddonChange(newItems, oldItems)

SpecAddonChange == InitWebhook /\ [][NextAddonChange]_vars

\* The add-on ids and quantities a list of items resolves to
ResolvedAddons(items) ==
    {<<a.id, a.quantity>> :
        a \in {getAddonsFromItems(items,
                   getStripeAddonsInternal(config.addons, FALSE, products, prices))[i] :
               i \in 1..Len(getAddonsFromItems(items,
                   getStripeAddonsInternal(config.addons, FALSE, products, prices)))}}

\* C20: checkIfAddonChange returns null exactly when the new and the old items
\* resolve to the same add-on ids with the same quantities (old items that are
\* absent stand for the new ones); an add-on added, removed or changed in
\* quantity gives a non-null result.
C20_AddonChangeExact ==
    op.name = "checkIfAddonChange" =>
        ((result.value = <<>>) <=>
            (ResolvedAddons(op.newItems)
                = ResolvedAddons(IF op.oldItems # <<>> THEN op.oldItems
                                 ELSE op.newItems)))

---------------------------------------------------------------------------
(* Properties of customer.subscription.updated deliveries *)

\* A customer.subscription.updated delivery that carries previous attributes,
\* metadata the contract accepts and a tier declared locally
UpdateProcessed ==
    /\ Verified
    /\ op.event.type = "customer.subscription.updated"
    /\ op.event.previous # <<>>
    /\ ~BadMetadata(op.event.object.data[1].metadata)
    /\ TierIdx(config, op.event.object.data[1].metadata.tierId) # 0

NewItems == op.event.object.data[1].items

OldItems == PreviousItems(op.event.previous[1])

\* The ids of the declared tiers the remote listing has
KnownTierIds ==
    {config.premiumTiers[i].id : i \in {j \in 1..Len(config.premiumTiers) :
        \E k \in 1..Len(products) :
            /\ products[k].which = "tier"
            /\ products[k].iid = config.premiumTiers[j].id}}

\* The tier id of the first item tagged with a known tier, "" if there is none
FirstTier(items) ==
    IF \A k \in 1..Len(items) : items[k].iid \notin KnownTierIds THEN ""
    ELSE items[CHOOSE k \in 1..Len(items) :
                   /\ items[k].iid \in KnownTierIds
                   /\ \A j \in 1..(k - 1) : items[j].iid \notin KnownTierIds].iid

TierDiffers ==
    /\ FirstTier(NewItems) # ""
    /\ FirstTier(OldItems) # ""
    /\ FirstTier(NewItems) # FirstTier(OldItems)

\* C21: a processed customer.subscription.updated delivery emits one
\* subscriptionTierChange, naming the first known tier of the new and of the
\* old items, if both item lists have an item tagged with a known tier and the
\* first such tiers differ; otherwise it emits none.
C21_TierChangeExact ==
    UpdateProcessed =>
        IF TierDiffers
        THEN /\ Count("subscriptionTierChange") = 1
             /\ \A i \in 1..Len(emitted) :
                    emitted[i].name = "subscriptionTierChange" =>
                        /\ emitted[i].data.newTier.id = FirstTier(NewItems)
                        /\ emitted[i].data.oldTier.id = FirstTier(OldItems)
        ELSE Count("subscriptionTierChange") = 0

\* A tier change found behind an add-on item, and none found for equal tiers
C21_Witness ==
    /\ UpdateProcessed
    /\ TierDiffers
    /\ NewItems[1].iid = "a1"
    /\ Len(OldItems) = 2
    /\ Count("subscriptionTierChange") = 1

\* The place of a domain event among those of one delivery
Rank(name) ==
    CASE name = "subscriptionCancel" -> 1
      [] name = "subscriptionTierChange" -> 2
      [] name = "subscriptionAddonsUpdate" -> 3
      [] name = "subscriptionUpdate" -> 4
      [] OTHER -> 0

\* C22: a processed customer.subscription.updated delivery emits exactly one
\* subscriptionUpdate, as its last event; the events before it are at most one
\* subscriptionCancel, one subscriptionTierChange and one
\* subscriptionAddonsUpdate, in that order.
C22_UpdateIsLast ==
    UpdateProcessed =>
        /\ Count("subscriptionUpdate") = 1
        /\ emitted # <<>>
        /\ emitted[Len(emitted)].name = "subscriptionUpdate"
        /\ \A i \in 1..Len(emitted) : Rank(emitted[i].name) # 0
        /\ \A i \in 1..Len(emitted), j \in 1..Len(emitted) :
               i < j => Rank(emitted[i].name) < Rank(emitted[j].name)

\* A delivery that emitted all four events
C22_Witness ==
    /\ UpdateProcessed
    /\ Len(emitted) = 4
    /\ Count("subscriptionCancel") = 1
    /\ Count("subscriptionTierChange") = 1
    /\ Count("subscriptionAddonsUpdate") = 1

\* The delivery reports a transition to canceled: the new status is canceled
\* and the previous attributes hold a status ("" is none) that is not.
BecameCanceled ==
    /\ op.event.object.data[1].status = "canceled"
    /\ op.event.previous[1].status \notin {"", "canceled"}

\* C23: a processed customer.subscription.updated delivery emits one
\* subscriptionCancel if the status changed to canceled, and none otherwise, in
\* particular none for a canceled subscription whose status did not change.
C23_CancelOnTransition ==
    UpdateProcessed =>
        Count("subscriptionCancel") = (IF BecameCanceled THEN 1 ELSE 0)

---------------------------------------------------------------------------
(* The webhook secret of a manager: constructed with or without a          *)
(* configured secret, bootstrapped by syncAll, receiving deliveries        *)

\* Declared configurations with a configured secret (-1) and without (0)
BootConfigs ==
    {[cfg EXCEPT !.stripeWebhookSecret = sec] :
        cfg \in WebhookConfigs, sec \in {0, -1}}

\* Deliveries with a signature that verifies and with one that does not
BootEvents ==
    OtherEvents
    \cup {Event("invoice.paid", r) : r \in InvoiceRefs("subscription_cycle", "paid")}

InitBoot ==
    /\ config \in BootConfigs
    /\ webhookSecret = config.stripeWebhookSecret
    /\ products = <<>>
    /\ prices = <<>>
    /\ endpoints = <<>>
    /\ customers = <<>>
    /\ subscriptions = <<>>
    /\ sessions = <<>>
    /\ nextId = 1
    /\ op = [name |-> "constructor"]
    /\ calls = <<>>
    /\ emitted = <<>>
    /\ result = Returned
    /\ runs = 0
    /\ synced = NoCatalog
    /\ running = <<>>

NextBoot ==
    \/ \E cfg \in BootConfigs : Construct(cfg)
    \/ SyncAll
    \/ \E ev \in BootEvents : WebhookHandler(ev)

SpecBoot == InitBoot /\ [][NextBoot]_vars

\* A call to the platform's webhook endpoints
IsEndpointCall(c) ==
    c.op \in {"webhookEndpoints.list", "webhookEndpoints.del",
              "webhookEndpoints.create"}

\* C24: while the manager holds no secret, webhookHandler throws before it
\* verifies the signature, emits nothing and calls nothing; a completed
\* syncAll leaves the manager with a secret; a manager that holds a secret
\* keeps one; and syncAll of a manager that holds a secret issues no webhook
\* endpoint call.
C24_SecretStateMachine ==
    [][/\ (op'.name = "webhookHandler" /\ webhookSecret = 0) =>
              /\ result'.kind = "throw"
              /\ result'.message
                     = "Failed to validate webhook, have you called validateWebhook()?"
              /\ emitted' = <<>>
              /\ calls' = <<>>
       /\ (op'.name = "syncAll" /\ result'.kind = "return") => webhookSecret' # 0
       /\ (webhookSecret # 0 /\ op'.name # "constructor") => webhookSecret' # 0
       /\ (op'.name = "syncAll" /\ webhookSecret # 0) =>
              ~Some(calls', IsEndpointCall)]_vars

\* A delivery with a bad signature to a manager that holds no secret, on an
\* account an earlier manager has bootstrapped
C24_Witness ==
    /\ op.name = "webhookHandler"
    /\ ~op.event.sig
    /\ webhookSecret = 0
    /\ endpoints # <<>>
    /\ result.kind = "throw"

---------------------------------------------------------------------------
(* Properties of price changes by the synchronizer *)

\* C25: the account never has two price objects of one product with the same
\* amount, currency and interval: a price change to an amount the product
\* already has a price object for, active or inactive, reuses that object.
C25_PriceObjectReused ==
    \A i \in 1..Len(prices), j \in 1..Len(prices) :
        (/\ prices[i].product = prices[j].product
         /\ prices[i].unit_amount = prices[j].unit_amount
         /\ prices[i].currency = prices[j].currency
         /\ prices[i].interval = prices[j].interval) => i = j

\* The entry listed for a declared one before the run (0: none)
ListedFor(which, d) ==
    LET entries == ResolveListing(which, <<>>, TRUE, products, prices)
        k == FindIdx(entries, LAMBDA e : e.id = d.id)
    IN  IF k = 0 THEN [id |-> ""] ELSE entries[k]

\* The run changes the price of the declared entry d
PriceChangedFor(which, d) ==
    /\ op'.name = "syncAll" /\ result'.kind = "return"
    /\ ListedFor(which, d).id # ""
    /\ ListedFor(which, d).priceCents # d.priceCents

\* After the step the product's default price is an active monthly price of
\* the given amount.
DefaultPriceIs(pid, amount) ==
    \E i \in 1..Len(products'), j \in 1..Len(prices') :
        /\ products'[i].id = pid
        /\ prices'[j].id = products'[i].default_price
        /\ prices'[j].product = pid
        /\ prices'[j].active
        /\ prices'[j].interval = "month"
        /\ prices'[j].unit_amount = amount

\* After the step the product has an active yearly price, and each one has
\* the given amount.
ActiveYearlyIs(pid, amount) ==
    /\ \E j \in 1..Len(prices') :
           prices'[j].product = pid /\ prices'[j].active /\ prices'[j].interval = "year"
    /\ \A j \in 1..Len(prices') :
           (prices'[j].product = pid /\ prices'[j].active /\ prices'[j].interval = "year")
               => prices'[j].unit_amount = amount

InactiveAfter(priceId) ==
    \A j \in 1..Len(prices') : prices'[j].id = priceId => ~prices'[j].active

\* C26: after a syncAll run changes the price of an existing tier or add-on to
\* p, the product's default price is an active monthly price of amount p, the
\* active yearly price has amount p times the entry's declared yearly
\* multiplier (10 if absent or below 1), and the superseded monthly and yearly
\* prices are inactive.
C26_PriceChangeResult ==
    [][\A which \in {"tier", "addon"} :
          \A n \in 1..Len(DeclaredOf(which)) :
              LET d == DeclaredOf(which)[n]
                  e == ListedFor(which, d)
              IN  PriceChangedFor(which, d) =>
                      /\ DefaultPriceIs(e.stripeProductId, d.priceCents)
                      /\ ActiveYearlyIs(e.stripeProductId,
                             d.priceCents * getYearlyMultiplier(d.yearlyMultiplier))
                      /\ InactiveAfter(e.monthlyPriceId)
                      /\ InactiveAfter(e.yearlyPriceId)]_vars

---------------------------------------------------------------------------
(* Properties of the add-on diff of customer.subscription.updated *)

\* The previous attributes of the delivery leave out the items
PreviousOmitsItems == op.event.previous[1].items = <<>>

\* C27: a processed customer.subscription.updated delivery whose previous
\* attributes leave out the items emits neither subscriptionTierChange nor
\* subscriptionAddonsUpdate, and still emits subscriptionUpdate.
C27_DegenerateDiff ==
    (UpdateProcessed /\ PreviousOmitsItems) =>
        /\ Count("subscriptionTierChange") = 0
        /\ Count("subscriptionAddonsUpdate") = 0
        /\ Count("subscriptionUpdate") = 1

\* Such a delivery for a subscription that has a known add-on
C27_Witness ==
    /\ UpdateProcessed
    /\ PreviousOmitsItems
    /\ Count("subscriptionUpdate") = 1
    /\ emitted[Len(emitted)].data.addons # <<>>
    /\ FirstTier(NewItems) # ""

\* The entries of addonUpdates as <<label, add-on id, quantity>>
Labels(addonUpdates) ==
    [j \in 1..Len(addonUpdates) |->
        <<addonUpdates[j].whatHappened, addonUpdates[j].addon.id, addonUpdates[j].qty>>]

\* One entry of addonUpdates says what the two snapshots of the delivery show.
SoundLabel(u) ==
    /\ u.whatHappened = "updated" =>
           /\ u.addon.id \in SnapshotIds(NewItems)
           /\ u.addon.id \in SnapshotIds(OldItems)
           /\ QuantityIn(NewItems, u.addon.id) # QuantityIn(OldItems, u.addon.id)
           /\ u.qty = QuantityIn(NewItems, u.addon.id)
    /\ u.whatHappened = "added" =>
           /\ u.addon.id \in SnapshotIds(NewItems)
           /\ u.addon.id \notin SnapshotIds(OldItems)
           /\ u.qty = QuantityIn(NewItems, u.addon.id)
    /\ u.whatHappened = "removed" =>
           /\ u.addon.id \notin SnapshotIds(NewItems)
           /\ u.addon.id \in SnapshotIds(OldItems)
           /\ u.qty = QuantityIn(OldItems, u.addon.id)

\* Old items <<tier t2, a1 x 1>>, new items <<tier t1, a1 x 2, a2 x 1>>, both
\* add-ons listed
TierAndAddonsChange ==
    /\ UpdateProcessed
    /\ OldItems = Snapshot("t2", 1, 0)
    /\ NewItems = Snapshot("t1", 2, 1)
    /\ SnapshotIds(NewItems) = {"a1", "a2"}

\* C28: in every subscriptionAddonsUpdate event an entry tagged updated names
\* an add-on of both snapshots whose quantities differ and carries the new
\* quantity, an entry tagged added names an add-on of the new snapshot only
\* with its new quantity, an entry tagged removed names an add-on of the old
\* snapshot only with its old quantity, and no add-on id has two entries; for
\* old items <<tier t2, a1 x 1>> and new items <<tier t1, a1 x 2, a2 x 1>> the
\* entries are updated (a1, 2) and added (a2, 1).
C28_LabelsSound ==
    UpdateProcessed =>
        /\ \A i \in 1..Len(emitted) :
               emitted[i].name = "subscriptionAddonsUpdate" =>
                   /\ \A j \in 1..Len(emitted[i].data.addonUpdates) :
                          SoundLabel(emitted[i].data.addonUpdates[j])
                   /\ \A j \in 1..Len(emitted[i].data.addonUpdates),
                          k \in 1..Len(emitted[i].data.addonUpdates) :
                          emitted[i].data.addonUpdates[j].addon.id
                              = emitted[i].data.addonUpdates[k].addon.id => j = k
        /\ TierAndAddonsChange =>
               /\ Count("subscriptionAddonsUpdate") = 1
               /\ \A i \in 1..Len(emitted) :
                      emitted[i].name = "subscriptionAddonsUpdate" =>
                          Labels(emitted[i].data.addonUpdates)
                              = << <<"updated", "a1", 2>>, <<"added", "a2", 1>> >>

\* The delivery of the example, with its subscriptionAddonsUpdate emitted
C28_Witness ==
    /\ TierAndAddonsChange
    /\ Count("subscriptionAddonsUpdate") = 1
    /\ Count("subscriptionTierChange") = 1

---------------------------------------------------------------------------
(* getAddonsFromItems called on its own, without a listing *)

\* Line items: one without a metadata id, the main tier item, one tagged with
\* an id no add-on has, and add-on items
SubscriptionItems ==
    {[iid |-> "", quantity |-> 1], [iid |-> "t1", quantity |-> 1],
     [iid |-> "a9", quantity |-> 1], [iid |-> "a1", quantity |-> 1],
     [iid |-> "a1", quantity |-> 2], [iid |-> "a2", quantity |-> 1]}

MaxItems == 3

LineItemLists ==
    UNION {[1..n -> SubscriptionItems] : n \in 0..MaxItems}

\* getAddonsFromItems(items): no items, no listing and no result; otherwise
\* the catalog is listed and the items are resolved against it.
GetAddonsFromItems(items) ==
    /\ \E st \in {ListForItems([products |-> products, prices |-> prices,
                                 subscriptions |-> subscriptions,
                                 secret |-> webhookSecret, calls |-> <<>>,
                                 emitted |-> <<>>, result |-> Pending], items)} :
           /\ calls' = st.calls
           /\ result' = [kind |-> "return", status |-> 0, message |-> "",
                         value |-> AddonsOfItems(st, config, items)]
    /\ op' = [name |-> "getAddonsFromItems", items |-> items]
    /\ emitted' = <<>>
    /\ UNCHANGED <<config, webhookSecret, products, prices, endpoints, customers,
                   subscriptions, sessions, nextId, runs, synced, running>>

NextAddonsFromItems == \E items \in LineItemLists : GetAddonsFromItems(items)

SpecAddonsFromItems == InitWebhook /\ [][NextAddonsFromItems]_vars

\* The ids of the declared add-ons the remote account has a product for
KnownAddonIds ==
    {config.addons[i].id : i \in {j \in 1..Len(config.addons) :
        \E k \in 1..Len(products) :
            /\ products[k].which = "addon"
            /\ products[k].iid = config.addons[j].id}}

\* The positions of the items tagged with a known add-on id, in item order
AddonPositions(items) ==
    SelectSeq([k \in 1..Len(items) |-> k], LAMBDA k : items[k].iid \in KnownAddonIds)

\* C29: getAddonsFromItems returns, in item order, one add-on with quantity
\* per line item tagged with a known remote add-on id, carrying that item's
\* quantity; items without a metadata id, the main tier item and items with an
\* unknown id give no entry; for no items the result is empty and no remote
\* call is made.
C29_AddonsFromItems ==
    op.name = "getAddonsFromItems" =>
        /\ Len(result.value) = Len(AddonPositions(op.items))
        /\ \A n \in 1..Len(result.value) :
               /\ result.value[n].id = op.items[AddonPositions(op.items)[n]].iid
               /\ result.value[n].quantity
                      = op.items[AddonPositions(op.items)[n]].quantity
        /\ op.items = <<>> => (result.value = <<>> /\ calls = <<>>)

\* An add-on resolved at quantity 2 between a tier item and an unknown one
C29_Witness ==
    /\ op.name = "getAddonsFromItems"
    /\ Len(op.items) = 3
    /\ op.items[1].iid = "t1"
    /\ op.items[3].iid = "a9"
    /\ Len(result.value) = 1
    /\ result.value[1].quantity = 2

---------------------------------------------------------------------------
(* Properties of invoice.payment_failed and invoice.payment_action_required *)

\* A delivery of one of the two types whose invoice resolves and has a
\* subscription
FailedDelivery ==
    /\ Verified
    /\ op.event.type \in {"invoice.payment_failed", "invoice.payment_action_required"}
    /\ op.event.object.data # <<>>
    /\ op.event.object.data[1].subscription # Null

FailedInvoice == op.event.object.data[1]

\* ... whose invoice is not resolved and whose subscription resolves with
\* metadata the contract accepts and a tier declared locally
FailedUnresolved ==
    /\ FailedDelivery
    /\ FailedInvoice.status \notin {"paid", "void", "uncollectible"}
    /\ FailedInvoice.subscription.data # <<>>
    /\ ~BadMetadata(FailedInvoice.subscription.data[1].metadata)
    /\ TierIdx(config, FailedInvoice.subscription.data[1].metadata.tierId) # 0

---------------------------------------------------------------------------
(* Properties of fraud warnings and lost disputes *)

FraudDelivery ==
    Verified /\ op.event.type = "radar.early_fraud_warning.created"

Warning == op.event.object.data[1]

\* C31: an actionable radar.early_fraud_warning.created delivery emits exactly
\* one earlyFraudWarning and then requests exactly one refund of the charge of
\* the warning; a delivery that is not actionable requests no refund; when the
\* refund request is rejected the handler throws, the event having been
\* emitted.
C31_FraudWarning ==
    FraudDelivery =>
        /\ Len(emitted) = 1
        /\ emitted[1].name = "earlyFraudWarning"
        /\ Warning.actionable =>
               /\ Len(calls) = 1
               /\ calls[1].op = "refunds.create"
               /\ calls[1].id = Warning.charge
               /\ calls[1].after = 1
        /\ ~Warning.actionable => calls = <<>>
        /\ (Warning.actionable /\ RefundRefused(Warning.charge)) => result.kind = "throw"

\* An actionable warning whose refund the platform rejected
C31_Witness ==
    /\ FraudDelivery
    /\ Warning.actionable
    /\ RefundRefused(Warning.charge)
    /\ Len(emitted) = 1
    /\ Len(calls) = 1
    /\ result.kind = "throw"

LostDispute == Verified /\ op.event.type = "charge.dispute.funds_withdrawn"

DisputedCharge == op.event.object.data[1].charge.data

\* The charge is retrieved with its invoice and the invoice's subscription
\* expanded.
DisputeResolves ==
    /\ DisputedCharge # <<>>
    /\ ~DisputedCharge[1].invoice.ref
    /\ DisputedCharge[1].invoice.data # <<>>
    /\ ~DisputedCharge[1].invoice.data[1].subscription.ref
    /\ DisputedCharge[1].invoice.data[1].subscription.data # <<>>

Cancellations == SelectSeq(calls, LAMBDA c : c.op = "subscriptions.cancel")

\* C32: a charge.dispute.funds_withdrawn delivery cancels the subscription of
\* the invoice of the disputed charge exactly once, with invoice_now equal to
\* the invoiceAllOnDisputeLoss option (false when it is not set), and emits no
\* event; when the charge, its invoice or its subscription does not resolve,
\* the result is status 400 and no cancellation is requested.
C32_LostDispute ==
    LostDispute =>
        IF DisputeResolves
        THEN /\ emitted = <<>>
             /\ Len(Cancellations) = 1
             /\ Cancellations[1].id
                    = DisputedCharge[1].invoice.data[1].subscription.data[1].id
             /\ Cancellations[1].patch.invoice_now
                    = (config.invoiceAllOnDisputeLoss = <<TRUE>>)
        ELSE /\ result.kind = "return"
             /\ result.status = 400
             /\ Cancellations = <<>>
             /\ emitted = <<>>

\* A lost dispute cancelled with the final invoice, the option being set
C32_Witness ==
    /\ LostDispute
    /\ DisputeResolves
    /\ config.invoiceAllOnDisputeLoss = <<TRUE>>
    /\ Len(Cancellations) = 1
    /\ Cancellations[1].patch.invoice_now

---------------------------------------------------------------------------
(* Properties of the billing of subscription changes *)

\* The step is a changeSubscriptionTier or changeSubscriptionAddons call that
\* returned after updating the subscription.
ChangeBilled ==
    /\ op'.name \in {"changeSubscriptionTier", "changeSubscriptionAddons"}
    /\ result'.kind = "return"
    /\ Some(calls', LAMBDA c : c.op = "subscriptions.update")

\* The remote calls of the step that are not reads
WritesOfStep == SelectSeq(calls', LAMBDA c : c.op \notin RemoteReads)

\* The strategy of the step, immediate when none is given
StrategyOfStep ==
    IF op'.charge.chargeType = "" THEN "immediate" ELSE op'.charge.chargeType

\* The balance of the customer of the changed subscription before the step
BalanceBefore ==
    customers[FindIdx(customers, LAMBDA c : c.id = op'.before[1].customer)].balance

\* The due-day offset in force: the one of the call, else the configured
\* default, else 7
DueDaysOfStep ==
    IF op'.charge.dueDays # 0 THEN op'.charge.dueDays
    ELSE IF config.defaultDueDays # 0 THEN config.defaultDueDays
    ELSE 7

BilledAtEndOfPeriod ==
    /\ Len(WritesOfStep) = 1
    /\ WritesOfStep[1].op = "subscriptions.update"
    /\ WritesOfStep[1].patch.proration_behavior = "none"

BilledImmediately ==
    /\ Len(WritesOfStep) >= 3
    /\ WritesOfStep[1].op = "subscriptions.update"
    /\ WritesOfStep[1].patch.proration_behavior = "create_prorations"
    /\ WritesOfStep[2].op = "invoices.create"
    /\ WritesOfStep[3].op = "invoices.finalizeInvoice"
    /\ IF op'.charge.invoice.total < 0
       THEN /\ Len(WritesOfStep) = 4
            /\ WritesOfStep[4].op = "customers.update"
            /\ WritesOfStep[4].patch.balance = BalanceBefore - op'.charge.invoice.total
       ELSE IF op'.charge.invoice.status = "open"
       THEN /\ Len(WritesOfStep) = 4
            /\ WritesOfStep[4].op = "invoices.pay"
       ELSE Len(WritesOfStep) = 3

BilledByInvoice ==
    /\ Len(WritesOfStep) = 3
    /\ WritesOfStep[1].op = "subscriptions.update"
    /\ WritesOfStep[1].patch.proration_behavior = "none"
    /\ WritesOfStep[2].op = "invoices.create"
    /\ WritesOfStep[2].patch.collection_method = "send_invoice"
    /\ WritesOfStep[2].patch.days_until_due = DueDaysOfStep
    /\ WritesOfStep[3].op = "invoices.finalizeInvoice"

\* C33: a changeSubscriptionTier or changeSubscriptionAddons call that changes
\* the subscription writes, with endOfPeriod, one subscription update without
\* proration and nothing else; with immediate, or no strategy given, an update
\* with proration, then invoice creation and finalization, then a payment
\* attempt if the total is not negative and the invoice is open, or a credit of
\* the absolute total to the customer's balance and no payment attempt if the
\* total is negative; with sendInvoice, an update without proration, then
\* creation of a send_invoice invoice with the due-day offset in force and its
\* finalization, and no payment attempt. The update comes first.
C33_BillingProtocol ==
    [][ChangeBilled =>
          CASE StrategyOfStep = "endOfPeriod" -> BilledAtEndOfPeriod
            [] StrategyOfStep = "immediate" -> BilledImmediately
            [] StrategyOfStep = "sendInvoice" -> BilledByInvoice]_vars

\* A tier change with no strategy given whose negative total was credited
C33_Witness ==
    /\ op.name = "changeSubscriptionTier"
    /\ op.charge.chargeType = ""
    /\ op.charge.invoice.total < 0
    /\ result.kind = "return"
    /\ Some(calls, LAMBDA c : c.op = "customers.update" /\ c.patch.balance > 0)

---------------------------------------------------------------------------
(* The listing helpers internalGetAllProducts, internalGetAllPrices and    *)
(* internalGetAllSubscriptions: one recursion per page, the remote         *)
(* collection standing in the products. The platform serves pages of       *)
(* PageLimit objects and may answer a request with an empty page that      *)
(* reports more data.                                                      *)

MaxListed == 6

PageLimit == 2

MaxEmptyPages == 2

\* The objects after the cursor (0: from the start)
AfterCursor(collection, startingAfter) ==
    SelectSeq(collection, LAMBDA o :
        startingAfter = 0
        \/ FindIdx(collection, LAMBDA x : x.id = o.id)
              > FindIdx(collection, LAMBDA x : x.id = startingAfter))

\* stripe.products.list({ limit, starting_after }) answered in full
FullPage(collection, startingAfter) ==
    [data |-> SubSeq(AfterCursor(collection, startingAfter), 1,
                     IF Len(AfterCursor(collection, startingAfter)) < PageLimit
                     THEN Len(AfterCursor(collection, startingAfter))
                     ELSE PageLimit),
     has_more |-> Len(AfterCursor(collection, startingAfter)) > PageLimit,
     empty |-> 0]

\* The answers the platform may give to one list request
PagesFor(collection, listing) ==
    {FullPage(collection, listing.startingAfter)}
    \cup (IF listing.emptyPages < MaxEmptyPages
          THEN {[data |-> <<>>, has_more |-> TRUE, empty |-> 1]}
          ELSE {})

\* products.data[products.data.length - 1]?.id (0 is undefined)
LastId(data) == IF data = <<>> THEN 0 ELSE data[Len(data)].id

\* internalGetAllProducts(): acc = [], startingAfter undefined
StartListing ==
    /\ running = <<>>
    /\ op.name = "constructor"
    /\ running' = <<[acc |-> <<>>, startingAfter |-> 0, emptyPages |-> 0]>>
    /\ op' = [name |-> "internalGetAllProducts"]
    /\ result' = Pending
    /\ calls' = <<>>
    /\ UNCHANGED <<config, webhookSecret, products, prices, endpoints, customers,
                   subscriptions, sessions, nextId, emitted, runs, synced>>

\* One list request and what follows its answer: the page is pushed onto acc;
\* with has_more the helper calls itself with the id of the last object of the
\* page, otherwise it returns acc.
ListPage ==
    /\ running # <<>>
    /\ \E page \in PagesFor(products, running[1]) :
           /\ calls' = Append(calls, [op |-> "products.list",
                                      id |-> running[1].startingAfter,
                                      patch |-> <<>>])
           /\ IF page.has_more
              THEN /\ running' = <<[acc |-> running[1].acc \o page.data,
                                    startingAfter |-> LastId(page.data),
                                    emptyPages |-> running[1].emptyPages + page.empty]>>
                   /\ result' = result
              ELSE /\ running' = <<>>
                   /\ result' = [kind |-> "return", status |-> 0, message |-> "",
                                 value |-> running[1].acc \o page.data]
    /\ UNCHANGED <<config, webhookSecret, products, prices, endpoints, customers,
                   subscriptions, sessions, nextId, emitted, runs, synced, op>>

InitListing ==
    /\ config = SeedConfig
    /\ webhookSecret = 0
    /\ \E n \in 0..MaxListed : products = [i \in 1..n |-> [id |-> i]]
    /\ prices = <<>>
    /\ endpoints = <<>>
    /\ customers = <<>>
    /\ subscriptions = <<>>
    /\ sessions = <<>>
    /\ nextId = 1
    /\ op = [name |-> "constructor"]
    /\ calls = <<>>
    /\ emitted = <<>>
    /\ result = Returned
    /\ runs = 0
    /\ synced = NoCatalog
    /\ running = <<>>

NextListing == StartListing \/ ListPage

SpecListing == InitListing /\ [][NextListing]_vars

ListingReturned ==
    op.name = "internalGetAllProducts" /\ running = <<>> /\ result.kind = "return"

\* C34: a listing helper that has returned gives every object of the remote
\* collection exactly once, also when a page that reports more data was
\* empty.
C34_ListedExactlyOnce ==
    ListingReturned =>
        \A i \in 1..Len(products) :
            Cardinality({k \in 1..Len(result.value) :
                result.value[k].id = products[i].id}) = 1

---------------------------------------------------------------------------
(* A declared catalog with one tier id under both subject types *)

TypedTier(type, priceCents) ==
    [id |-> "t1", type |-> type,
     name |-> IF type = "user" THEN "Gold" ELSE "Guild Gold",
     priceCents |-> priceCents, yearlyMultiplier |-> 0, currency |-> "",
     isActive |-> TRUE]

\* config.premiumTiers: the tier declared for users, for guilds, or for both in
\* either order.
TypedConfigs ==
    {[premiumTiers |-> ts, addons |-> <<>>, stripeWebhookUrl |-> "hook",
      stripeWebhookSecret |-> 0, invoiceAllOnDisputeLoss |-> <<>>] :
        ts \in {<<TypedTier(t, pc)>> : t \in {"user", "guild"}, pc \in {1, 2}}
               \cup {<<TypedTier(t, pc), TypedTier(IF t = "user" THEN "guild" ELSE "user", qc)>> :
                        t \in {"user", "guild"}, pc \in {1, 2}, qc \in {1, 2}}}

InitTyped ==
    /\ config \in TypedConfigs
    /\ webhookSecret = config.stripeWebhookSecret
    /\ products = <<>>
    /\ prices = <<>>
    /\ endpoints = <<>>
    /\ customers = <<>>
    /\ subscriptions = <<>>
    /\ sessions = <<>>
    /\ nextId = 1
    /\ op = [name |-> "constructor"]
    /\ calls = <<>>
    /\ emitted = <<>>
    /\ result = Returned
    /\ runs = 0
    /\ synced = NoCatalog
    /\ running = <<>>

NextTyped ==
    \/ \E cfg \in TypedConfigs : Construct(cfg)
    \/ SyncAll

SpecSyncTyped == InitTyped /\ [][NextTyped]_vars

\* The remote products tagged as the counterpart of declared tier d
CounterpartsOf(d) ==
    {i \in 1..Len(products) :
        /\ products[i].which = "tier"
        /\ products[i].iid = d.id
        /\ products[i].type = d.type}

DeclaresBothTypes ==
    /\ Len(config.premiumTiers) = 2
    /\ config.premiumTiers[1].id = config.premiumTiers[2].id
    /\ config.premiumTiers[1].type # config.premiumTiers[2].type

\* C35: after a syncAll that returns, a catalog that declares one tier id under
\* both subject types has, for each of the two declared tiers, a remote product
\* carrying its id tag and its subject-type tag: two distinct products.
C35_TypedIdentity ==
    (op.name = "syncAll" /\ result.kind = "return" /\ DeclaresBothTypes) =>
        \A k \in 1..2 : CounterpartsOf(config.premiumTiers[k]) # {}

---------------------------------------------------------------------------
(* The items of a subscription after an add-on change *)

\* A changeSubscriptionAddons call that returned after updating the subscription
AddonsChanged ==
    /\ op'.name = "changeSubscriptionAddons"
    /\ result'.kind = "return"
    /\ Some(calls', LAMBDA c : c.op = "subscriptions.update")

\* The items of the changed subscription before and after the step
ItemsBefore == op'.before[1].items

ItemsAfter ==
    subscriptions'[FindIdx(subscriptions', LAMBDA s : s.id = op'.before[1].id)].items

\* The catalog price of an add-on for the billing interval of the subscription
IntervalPriceOf(iid) ==
    prices[FindIdx(prices, LAMBDA p :
        /\ p.iid = iid /\ p.which = "addon" /\ p.active
        /\ p.interval = IF op'.before[1].metadata.isAnnual = "true"
                        THEN "year" ELSE "month")].id

MainItemKept ==
    \A k \in 1..Len(ItemsBefore) :
        (k = MainItemIdx(op'.before[1])) =>
            Some(ItemsAfter, LAMBDA it :
                /\ it.id = ItemsBefore[k].id
                /\ it.price = ItemsBefore[k].price
                /\ it.quantity = 1)

RequestedPresent ==
    \A n \in 1..Len(op'.newAddons) :
        IF Some(ItemsBefore, LAMBDA b : b.iid = op'.newAddons[n].id)
        THEN \E k \in 1..Len(ItemsBefore) :
                /\ ItemsBefore[k].iid = op'.newAddons[n].id
                /\ Some(ItemsAfter, LAMBDA it :
                       /\ it.id = ItemsBefore[k].id
                       /\ it.price = ItemsBefore[k].price
                       /\ it.quantity = op'.newAddons[n].quantity)
        ELSE Some(ItemsAfter, LAMBDA it :
                 /\ it.price = IntervalPriceOf(op'.newAddons[n].id)
                 /\ it.quantity = op'.newAddons[n].quantity
                 /\ ~Some(ItemsBefore, LAMBDA b : b.id = it.id))

OthersDeleted ==
    /\ Len(ItemsAfter) = 1 + Len(op'.newAddons)
    /\ \A k \in 1..Len(ItemsBefore) :
           (/\ k # MainItemIdx(op'.before[1])
            /\ ~Some(op'.newAddons, LAMBDA n : n.id = ItemsBefore[k].iid)) =>
               ~Some(ItemsAfter, LAMBDA it : it.id = ItemsBefore[k].id)

\* C36: after a changeSubscriptionAddons call that returns and is not a no-op,
\* the subscription has its main tier item with the same price and quantity 1,
\* each requested add-on it had before on the same item and price with the
\* requested quantity, each requested add-on it did not have on a new item at
\* the add-on's monthly or yearly price as the subscription's isAnnual says, and
\* no other item: every add-on item not requested is gone.
C36_AddonItemsAsRequested ==
    [][AddonsChanged => (MainItemKept /\ RequestedPresent /\ OthersDeleted)]_vars

\* An add-on change that kept one add-on with a new quantity and added another
C36_Witness ==
    /\ op.name = "changeSubscriptionAddons"
    /\ result.kind = "return"
    /\ Len(op.newAddons) = 2
    /\ Some(calls, LAMBDA c : c.op = "subscriptions.update")
    /\ Some(op.before[1].items, LAMBDA b : b.iid = "a1" /\ b.quantity = 1)
    /\ ~Some(op.before[1].items, LAMBDA b : b.iid = "a3")

---------------------------------------------------------------------------
(* The transfer of a user subscription to another user *)

\* changeSubscriptionUser was called on an active user subscription of another
\* user than newUserId
UserTransferRequested ==
    /\ op.name = "changeSubscriptionUser"
    /\ op.before # <<>>
    /\ op.before[1].status = "active"
    /\ op.before[1].metadata.isUserSub = "true"
    /\ op.before[1].metadata.userId \notin {"", op.newUserId}

\* C37: changeSubscriptionUser on an active user subscription whose userId is
\* not newUserId returns true and leaves the subscription with userId newUserId.
C37_UserTransferSucceeds ==
    UserTransferRequested =>
        /\ result = [kind |-> "return", status |-> 0, message |-> "true"]
        /\ subscriptions[FindIdx(subscriptions, LAMBDA s : s.id = op.before[1].id)]
               .metadata.userId = op.newUserId

---------------------------------------------------------------------------
(* syncAll runs of one manager without a configured secret, interleaved at *)
(* the remote calls of validateWebhook. Nothing is declared and the        *)
(* account has no product, so the catalog passes after it issue no write.  *)

MaxValidating == 2

UnsecuredConfig ==
    [premiumTiers |-> <<>>, addons |-> <<>>, stripeWebhookUrl |-> "hook",
     stripeWebhookSecret |-> 0, invoiceAllOnDisputeLoss |-> <<>>]

\* The endpoints of the account before the runs: none, one an earlier process
\* of this system created, one of another system, or both.
EarlierEndpoints ==
    {<<>>,
     <<[id |-> 1, url |-> "hook", internal |-> "StripeCord", secret |-> 1]>>,
     <<[id |-> 1, url |-> "other", internal |-> "", secret |-> 1]>>,
     <<[id |-> 2, url |-> "hook", internal |-> "StripeCord", secret |-> 2],
       [id |-> 1, url |-> "other", internal |-> "", secret |-> 1]>>}

NotValidating == [pc |-> "idle", webhook |-> <<>>, created |-> 0]

\* if (this.stripeWebhookSecret) return; else webhookEndpoints.list() is sent
StartValidating(r) ==
    /\ running[r].pc = "idle"
    /\ running' = [running EXCEPT ![r].pc = IF webhookSecret # 0 THEN "done"
                                            ELSE "list"]
    /\ emitted' = IF webhookSecret # 0 THEN <<[name |-> "debug"]>> ELSE <<>>
    /\ calls' = <<>>
    /\ op' = [name |-> "syncAll.start", run |-> r]
    /\ UNCHANGED <<config, webhookSecret, products, prices, endpoints, customers,
                   subscriptions, sessions, nextId, result, runs, synced>>

\* The platform answers the listing; the run keeps the endpoints with the
\* configured url or this system's tag.
ListEndpoints(r) ==
    /\ running[r].pc = "list"
    /\ running' = [running EXCEPT
           ![r].webhook = SelectSeq(endpoints, LAMBDA w :
                              w.url = config.stripeWebhookUrl
                              \/ w.internal = "StripeCord"),
           ![r].pc = IF Some(endpoints, LAMBDA w :
                             w.url = config.stripeWebhookUrl
                             \/ w.internal = "StripeCord")
                     THEN "del" ELSE "create"]
    /\ calls' = <<[op |-> "webhookEndpoints.list", id |-> 0, patch |-> <<>>]>>
    /\ emitted' = <<>>
    /\ op' = [name |-> "syncAll.list", run |-> r]
    /\ UNCHANGED <<config, webhookSecret, products, prices, endpoints, customers,
                   subscriptions, sessions, nextId, result, runs, synced>>

\* webhookEndpoints.del of the next listed endpoint; a failure, as for an
\* endpoint already deleted, is caught.
DeleteEndpoint(r) ==
    /\ running[r].pc = "del"
    /\ endpoints' = SelectSeq(endpoints, LAMBDA w : w.id # Head(running[r].webhook).id)
    /\ running' = [running EXCEPT
           ![r].webhook = Tail(@),
           ![r].pc = IF Tail(running[r].webhook) = <<>> THEN "create" ELSE "del"]
    /\ calls' = <<[op |-> "webhookEndpoints.del", id |-> Head(running[r].webhook).id,
                   patch |-> <<>>]>>
    /\ emitted' = <<[name |-> "debug"]>>
    /\ op' = [name |-> "syncAll.del", run |-> r]
    /\ UNCHANGED <<config, webhookSecret, products, prices, customers,
                   subscriptions, sessions, nextId, result, runs, synced>>

\* The platform creates the endpoint of webhookEndpoints.create
CreateWebhook(r) ==
    /\ running[r].pc = "create"
    /\ endpoints' = <<[id |-> nextId, url |-> config.stripeWebhookUrl,
                       internal |-> "StripeCord", secret |-> nextId]>> \o endpoints
    /\ nextId' = nextId + 1
    /\ running' = [running EXCEPT ![r].created = nextId, ![r].pc = "store"]
    /\ calls' = <<[op |-> "webhookEndpoints.create", id |-> nextId, patch |-> <<>>]>>
    /\ emitted' = <<>>
    /\ op' = [name |-> "syncAll.create", run |-> r]
    /\ UNCHANGED <<config, webhookSecret, products, prices, customers,
                   subscriptions, sessions, result, runs, synced>>

\* The run resumes with the created endpoint: this.stripeWebhookSecret =
\* newWebhook.secret. The catalog passes that follow find nothing to write.
StoreSecret(r) ==
    /\ running[r].pc = "store"
    /\ webhookSecret' = running[r].created
    /\ running' = [running EXCEPT ![r].pc = "done"]
    /\ calls' = <<>>
    /\ emitted' = <<[name |-> "debug"]>>
    /\ op' = [name |-> "syncAll.store", run |-> r]
    /\ UNCHANGED <<config, products, prices, endpoints, customers,
                   subscriptions, sessions, nextId, result, runs, synced>>

InitValidating ==
    /\ config = UnsecuredConfig
    /\ webhookSecret = 0
    /\ products = <<>>
    /\ prices = <<>>
    /\ endpoints \in EarlierEndpoints
    /\ nextId = Len(endpoints) + 1
    /\ customers = <<>>
    /\ subscriptions = <<>>
    /\ sessions = <<>>
    /\ op = [name |-> "constructor"]
    /\ calls = <<>>
    /\ emitted = <<>>
    /\ result = Returned
    /\ runs = 0
    /\ synced = NoCatalog
    /\ running = [r \in 1..MaxValidating |-> NotValidating]

NextValidating ==
    \E r \in 1..MaxValidating :
        \/ StartValidating(r)
        \/ ListEndpoints(r)
        \/ DeleteEndpoint(r)
        \/ CreateWebhook(r)
        \/ StoreSecret(r)

SpecValidating == InitValidating /\ [][NextValidating]_vars

\* Every run has finished
AllValidated == \A r \in 1..MaxValidating : running[r].pc = "done"

\* The endpoints tagged by this system for the configured url
OwnEndpoints ==
    {i \in 1..Len(endpoints) :
        /\ endpoints[i].internal = "StripeCord"
        /\ endpoints[i].url = config.stripeWebhookUrl}

\* C38: when the concurrent syncAll runs of a manager without a configured
\* secret have all finished, the account has exactly one endpoint tagged by
\* this system for the configured url, and the manager's secret is the secret
\* of that endpoint.
C38_OneEndpointAfterRuns ==
    AllValidated =>
        /\ Cardinality(OwnEndpoints) = 1
        /\ \A i \in OwnEndpoints : webhookSecret = endpoints[i].secret

---------------------------------------------------------------------------
(* Rejected deliveries *)

\* The events of the subscription, invoice, fraud and dispute families
DomainEvents ==
    LifecycleEvents \cup {"invoiceNeedsPayment", "invoicePaymentFailed",
                          "earlyFraudWarning", "disputeWarning"}

\* webhookHandler returned status 400 for an event type it has a case for
RejectedDelivery ==
    /\ Verified
    /\ op.event.type \in HandledTypes
    /\ result.kind = "return"
    /\ result.status = 400

\* C39: a delivery of a handled event type that webhookHandler answers with
\* status 400 has emitted no subscription, invoice, fraud or dispute event and
\* issued no remote write; and no delivery is answered with the rejection for a
\* changed tier that is not declared (#3).
C39_NoPartialEmission ==
    /\ RejectedDelivery =>
           /\ ~Some(emitted, LAMBDA e : e.name \in DomainEvents)
           /\ RemoteWrites = <<>>
    /\ Delivered => result.message # "Tier not found locally (#3)."

\* A subscription update rejected for its undeclared tier after the catalog
\* was listed
C39_Witness ==
    /\ RejectedDelivery
    /\ op.event.type = "customer.subscription.updated"
    /\ result.message = "Tier not found locally (#2)."
    /\ calls # <<>>

---------------------------------------------------------------------------
(* Two prorated changes for one customer, interleaved at the remote calls  *)
(* that settle their invoices. The changes are of two subscriptions of the *)
(* customer, so each run's calls up to the finalized invoice touch nothing *)
(* the other run reads; they are taken as one step.                        *)

MaxCrediting == 2

CreditConfig ==
    [premiumTiers |-> MutTiers,
     addons |-> <<MutAddon("a1", "user", "Slots"), MutAddon("a2", "guild", "Seats")>>,
     stripeWebhookUrl |-> "hook", stripeWebhookSecret |-> 0,
     invoiceAllOnDisputeLoss |-> <<>>, defaultDueDays |-> 0]

\* The account before the next operation is called
Opened(st) == [st EXCEPT !.calls = <<>>, !.emitted = <<>>, !.result = Pending]

\* The account of a synced catalog, with no customer yet
SyncedAccount(st) ==
    [products |-> st.products, prices |-> st.prices, customers |-> <<>>,
     subscriptions |-> <<>>, sessions |-> <<>>, nextId |-> st.nextId,
     calls |-> <<>>, emitted |-> <<>>, result |-> Pending]

\* The checkout of a session completed by the customer
Subscribed(st) == Opened(CompleteSession(Opened(st), st.sessions[1]))

\* User u1 subscribes to tier t1 for themselves, and to tier t2 for guild g1
CreditCheckout(tierId, guildId) ==
    [tierId |-> tierId, guildId |-> guildId, addons |-> <<>>, isAnnual |-> FALSE,
     customer |-> [userId |-> "u1", email |-> "e1"]]

\* The invoices the platform finalizes for a prorated change
CreditInvoices ==
    {[total |-> t, status |-> "paid"] : t \in {-2, -1}}
    \cup {[total |-> 1, status |-> "open"]}

Settled == [total |-> 0, status |-> "paid"]

\* Run 1 changes the tier of the user subscription, run 2 the add-ons of the
\* guild subscription; both with chargeType immediate. The operation is taken
\* up to its finalized invoice.
Prorated(r) ==
    IF r = 1
    THEN changeSubscriptionTier(MutState, config,
             subscriptions[FindIdx(subscriptions, LAMBDA s :
                 s.metadata.isUserSub = "true")].id,
             "t3", [chargeType |-> "immediate", dueDays |-> 0], Settled)
    ELSE changeSubscriptionAddons(MutState, config,
             subscriptions[FindIdx(subscriptions, LAMBDA s :
                 s.metadata.isUserSub # "true")].id,
             <<[id |-> "a2", quantity |-> 1]>>,
             [chargeType |-> "immediate", dueDays |-> 0], Settled)

\* subscriptions.update, invoices.create and invoices.finalizeInvoice of a run;
\* the platform finalizes the invoice with a total of its own.
ChangeProrated(r, invoice) ==
    /\ running[r].pc = "idle"
    /\ \E st \in {Prorated(r)} :
           /\ subscriptions' = st.subscriptions
           /\ calls' = st.calls
           /\ emitted' = st.emitted
           /\ result' = IF invoice.total >= 0 /\ invoice.status # "open"
                        THEN st.result ELSE Pending
    /\ running' = [running EXCEPT
           ![r].invoice = invoice,
           ![r].pc = IF invoice.total < 0 THEN "read"
                     ELSE IF invoice.status = "open" THEN "pay" ELSE "done"]
    /\ op' = [name |-> "change.finalize", run |-> r]
    /\ UNCHANGED <<config, webhookSecret, products, prices, endpoints, customers,
                   sessions, nextId, runs, synced>>

\* if (finalizedInvoice.total < 0): the debug event and getCustomer({ customerId })
ReadBalance(r) ==
    /\ running[r].pc = "read"
    /\ running' = [running EXCEPT ![r].balance = customers[1].balance,
                                  ![r].pc = "write"]
    /\ calls' = <<[op |-> "customers.retrieve", id |-> customers[1].id,
                   patch |-> <<>>]>>
    /\ emitted' = <<[name |-> "debug"]>>
    /\ result' = Pending
    /\ op' = [name |-> "change.read", run |-> r]
    /\ UNCHANGED <<config, webhookSecret, products, prices, endpoints, customers,
                   subscriptions, sessions, nextId, runs, synced>>

\* customers.update(customerId, { balance: balance + Math.abs(total) }), with
\* the balance that was read; the operation returns true.
WriteBalance(r) ==
    /\ running[r].pc = "write"
    /\ customers' = PatchById(customers, customers[1].id,
                        [balance |-> running[r].balance - running[r].invoice.total])
    /\ running' = [running EXCEPT ![r].pc = "done"]
    /\ calls' = <<[op |-> "customers.update", id |-> customers[1].id,
                   patch |-> [balance |-> running[r].balance
                                          - running[r].invoice.total]]>>
    /\ emitted' = <<>>
    /\ result' = [kind |-> "return", status |-> 0, message |-> "true"]
    /\ op' = [name |-> "change.credit", run |-> r]
    /\ UNCHANGED <<config, webhookSecret, products, prices, endpoints,
                   subscriptions, sessions, nextId, runs, synced>>

\* else if (finalizedInvoice.status === 'open'): the debug event and invoices.pay
PayInvoice(r) ==
    /\ running[r].pc = "pay"
    /\ running' = [running EXCEPT ![r].pc = "done"]
    /\ calls' = <<[op |-> "invoices.pay", id |-> 0, patch |-> <<>>]>>
    /\ emitted' = <<[name |-> "debug"]>>
    /\ result' = [kind |-> "return", status |-> 0, message |-> "true"]
    /\ op' = [name |-> "change.pay", run |-> r]
    /\ UNCHANGED <<config, webhookSecret, products, prices, endpoints, customers,
                   subscriptions, sessions, nextId, runs, synced>>

\* An account with a synced catalog on which the customer has completed two
\* checkouts; the customer has a balance of 0 or 3 when the two runs start.
InitCredit ==
    \E synced0 \in {syncAll(NewAccount, CreditConfig)} :
      \E s1 \in {createCheckoutSession(SyncedAccount(synced0), CreditConfig,
                                       CreditCheckout("t1", ""))} :
        \E a1 \in {Subscribed(s1)} :
          \E s2 \in {createCheckoutSession(a1, CreditConfig,
                                           CreditCheckout("t2", "g1"))} :
            \E a2 \in {Subscribed(s2)} :
              /\ config = CreditConfig
              /\ webhookSecret = synced0.secret
              /\ products = a2.products
              /\ prices = a2.prices
              /\ endpoints = synced0.endpoints
              /\ \E b \in {0, 3} :
                     /\ customers = PatchById(a2.customers, a2.customers[1].id,
                                              [balance |-> b])
                     /\ running = [r \in 1..MaxCrediting |->
                                      [pc |-> "idle", invoice |-> Settled,
                                       balance |-> 0, initial |-> b]]
              /\ subscriptions = a2.subscriptions
              /\ sessions = a2.sessions
              /\ nextId = a2.nextId
              /\ op = [name |-> "checkout.completed"]
              /\ calls = <<>>
              /\ emitted = <<>>
              /\ result = Returned
              /\ runs = 0
              /\ synced = Catalog(CreditConfig)

NextCredit ==
    \E r \in 1..MaxCrediting :
        \/ \E invoice \in CreditInvoices : ChangeProrated(r, invoice)
        \/ ReadBalance(r)
        \/ WriteBalance(r)
        \/ PayInvoice(r)

SpecCredit == InitCredit /\ [][NextCredit]_vars

\* Both runs have completed, each after an invoice with a negative total
BothCredited ==
    \A r \in 1..MaxCrediting :
        running[r].pc = "done" /\ running[r].invoice.total < 0

\* C40: when two changes with chargeType immediate for one customer have both
\* completed after invoices with negative totals, the customer's balance is the
\* balance before the two plus the absolute totals of both invoices.
C40_NoLostCredit ==
    BothCredited =>
        customers[1].balance
            = running[1].initial - running[1].invoice.total - running[2].invoice.total

====
